---------------------------- MODULE Spec2Model ----------------------------
(***************************************************************************)
(* Security-group reconciliation of the OpenStack cluster provider         *)
(* (pkg/cloud/services/networking/securitygroups.go).                      *)
(*                                                                         *)
(* The provider (Neutron, reached through the networking client) holds a   *)
(* list of security groups, each with its rules.  ReconcileSecurityGroups  *)
(* ensures the groups of the cluster exist, builds the desired rules and   *)
(* has reconcileGroupRules diff each desired securityGroupSpec against the *)
(* observed SecurityGroupStatus and issue DeleteSecGroupRule /             *)
(* CreateSecGroupRule calls.  DeleteSecurityGroups removes the groups of   *)
(* the cluster by name, and GetSecurityGroups resolves a list of filters   *)
(* to group ids.  One provider call per step; any call may fail.           *)
(* Invocations run one at a time, except in RaceSpec, where two interleave.*)
(***************************************************************************)
EXTENDS Integers, Sequences, FiniteSets, TLC

VARIABLES
    secGroups,        \* provider: sequence of groups.SecGroup [ID, Name, Rules, Tags]
    nextRuleID,       \* provider: next rule id it assigns
    nextGroupID,      \* provider: index in GroupIDs of the next group id it assigns
    cfg,              \* the OpenStackCluster spec handed to ReconcileSecurityGroups
    clusterStatus,    \* the OpenStackCluster status: the three security group fields
    todo,             \* keys of the map a range loop has still to visit
    key,              \* key of the map entry the running loop is at
    remoteManagedGroups, \* generateDesiredSecGroups: suffix -> group id
    desiredSecGroups, \* ReconcileSecurityGroups: suffix -> securityGroupSpec
    observedSecGroups, \* ReconcileSecurityGroups: suffix -> *SecurityGroupStatus
    retErr,           \* what the last ReconcileSecurityGroups returned
    failBudget,       \* provider calls that may still fail
    desired,          \* reconcileGroupRules: the desired securityGroupSpec
    observed,         \* reconcileGroupRules: the observed SecurityGroupStatus
    rulesToDelete,    \* reconcileGroupRules: ids of rules to delete
    rulesToCreate,    \* reconcileGroupRules: desired rules to create
    reconciledRules,  \* reconcileGroupRules: rule statuses of the result
    i,                \* index of the running for loop (lines 405, 414)
    pc,               \* position of the invocation
    result,           \* what reconcileGroupRules returned: [status, err]
    calls,            \* provider calls issued by the current invocation, in order
    pass,             \* number of the current pass over the desired groups
    prevOK,           \* the previous invocation returned no error
    lists,            \* number of ListSecGroup calls of the current invocation
    peer,             \* the locals of a concurrent invocation while it is not running
    switches,         \* how often the running invocation has changed
    securityGroupParams, \* GetSecurityGroups: the filters passed in
    sgIDs             \* GetSecurityGroups: the ids resolved so far

vars == <<secGroups, nextRuleID, nextGroupID, cfg, clusterStatus, todo, key,
          remoteManagedGroups, desiredSecGroups, observedSecGroups, retErr,
          failBudget, desired, observed, rulesToDelete, rulesToCreate,
          reconciledRules, i, pc, result, calls, pass, peer, switches, prevOK, lists,
          securityGroupParams, sgIDs>>

\* the provider's state
provVars == <<secGroups, nextRuleID, nextGroupID>>

\* the locals of ReconcileSecurityGroups and generateDesiredSecGroups
flowVars == <<todo, key, remoteManagedGroups, desiredSecGroups, observedSecGroups>>

\* the parameter and the result of GetSecurityGroups
getVars == <<securityGroupParams, sgIDs>>

\* the locals of reconcileGroupRules
ruleVars == <<desired, observed, rulesToDelete, rulesToCreate, reconciledRules, i, result>>

---------------------------------------------------------------------------
(* Bounds of the model *)

MaxDesired == 2
MaxObserved == 2
MaxPasses == 2
MaxFailures == 1
MaxSwitches == 2
MaxFilters == 3

---------------------------------------------------------------------------
(* Constants of the source, lines 30-37 *)

secGroupPrefix == "k8s"
controlPlaneSuffix == "controlplane"
workerSuffix == "worker"
bastionSuffix == "bastion"
remoteGroupIDSelf == "self"

ClusterName == "c"

getSecControlPlaneGroupName(clusterName) ==
    <<secGroupPrefix, "cluster", clusterName, "secgroup", controlPlaneSuffix>>

getSecWorkerGroupName(clusterName) ==
    <<secGroupPrefix, "cluster", clusterName, "secgroup", workerSuffix>>

getSecBastionGroupName(clusterName) ==
    <<secGroupPrefix, "cluster", clusterName, "secgroup", bastionSuffix>>

---------------------------------------------------------------------------
(* Values *)

NoErr == "nil"
ErrDeleteRule == "DeleteSecGroupRule failed"
ErrCreateRule == "CreateSecGroupRule failed"
ErrAmbiguous == "more than one security group found"

\* infrav1.SecurityGroupStatus{} : the zero value
EmptyStatus == [ID |-> "", Name |-> <<>>, Rules |-> <<>>]

\* A Go pointer to a value: <<>> is nil, <<v>> points to v.
Ptr(v) == <<v>>
Deref(p) == p[1]

RuleFields ==
    {"Description", "Direction", "EtherType", "PortRangeMin", "PortRangeMax",
     "Protocol", "RemoteGroupID", "RemoteIPPrefix"}

\* resolvedSecurityGroupRuleSpec, lines 102-111
RuleSpec(desc, dir, eth, pmin, pmax, proto, rgid, rip) ==
    [Description |-> desc, Direction |-> dir, EtherType |-> eth,
     PortRangeMin |-> pmin, PortRangeMax |-> pmax, Protocol |-> proto,
     RemoteGroupID |-> rgid, RemoteIPPrefix |-> rip]

\* mutant: the remote group is left out of the comparison
Matches_IgnoresRemoteGroupID(r, other) ==
    /\ r.Description = Deref(other.Description)
    /\ r.Direction = other.Direction
    /\ r.EtherType = Deref(other.EtherType)
    /\ r.PortRangeMin = Deref(other.PortRangeMin)
    /\ r.PortRangeMax = Deref(other.PortRangeMax)
    /\ r.Protocol = Deref(other.Protocol)
    /\ r.RemoteIPPrefix = Deref(other.RemoteIPPrefix)

\* mutant: the description is left out of the comparison
Matches_IgnoresDescription(r, other) ==
    /\ r.Direction = other.Direction
    /\ r.EtherType = Deref(other.EtherType)
    /\ r.PortRangeMin = Deref(other.PortRangeMin)
    /\ r.PortRangeMax = Deref(other.PortRangeMax)
    /\ r.Protocol = Deref(other.Protocol)
    /\ r.RemoteGroupID = Deref(other.RemoteGroupID)
    /\ r.RemoteIPPrefix = Deref(other.RemoteIPPrefix)

(* Matches, lines 113-122: field by field, the status' optional fields
   dereferenced. *)
Matches(r, other) ==
    /\ r.Description = Deref(other.Description)
    /\ r.Direction = other.Direction
    /\ r.EtherType = Deref(other.EtherType)
    /\ r.PortRangeMin = Deref(other.PortRangeMin)
    /\ r.PortRangeMax = Deref(other.PortRangeMax)
    /\ r.Protocol = Deref(other.Protocol)
    /\ r.RemoteGroupID = Deref(other.RemoteGroupID)
    /\ r.RemoteIPPrefix = Deref(other.RemoteIPPrefix)

\* mutant: a field that has its zero value at the provider is left nil
convertOSSecGroupRuleToConfigSecGroupRule_OmitsEmpty(osSecGroupRule) ==
    LET opt(v, zero) == IF v = zero THEN <<>> ELSE Ptr(v) IN
    [ID |-> osSecGroupRule.ID,
     Direction |-> osSecGroupRule.Direction,
     Description |-> opt(osSecGroupRule.Description, ""),
     EtherType |-> opt(osSecGroupRule.EtherType, ""),
     PortRangeMin |-> opt(osSecGroupRule.PortRangeMin, 0),
     PortRangeMax |-> opt(osSecGroupRule.PortRangeMax, 0),
     Protocol |-> opt(osSecGroupRule.Protocol, ""),
     RemoteGroupID |-> opt(osSecGroupRule.RemoteGroupID, ""),
     RemoteIPPrefix |-> opt(osSecGroupRule.RemoteIPPrefix, "")]

(* convertOSSecGroupRuleToConfigSecGroupRule, lines 542-554: every optional
   field of the status points to the wire rule's field. *)
convertOSSecGroupRuleToConfigSecGroupRule(osSecGroupRule) ==
    [ID |-> osSecGroupRule.ID,
     Direction |-> osSecGroupRule.Direction,
     Description |-> Ptr(osSecGroupRule.Description),
     EtherType |-> Ptr(osSecGroupRule.EtherType),
     PortRangeMin |-> Ptr(osSecGroupRule.PortRangeMin),
     PortRangeMax |-> Ptr(osSecGroupRule.PortRangeMax),
     Protocol |-> Ptr(osSecGroupRule.Protocol),
     RemoteGroupID |-> Ptr(osSecGroupRule.RemoteGroupID),
     RemoteIPPrefix |-> Ptr(osSecGroupRule.RemoteIPPrefix)]

(* convertOSSecGroupToConfigSecGroup, lines 530-540 *)
convertOSSecGroupToConfigSecGroup(osSecGroup) ==
    [ID |-> osSecGroup.ID,
     Name |-> osSecGroup.Name,
     Rules |-> [k \in 1..Len(osSecGroup.Rules) |->
                  convertOSSecGroupRuleToConfigSecGroupRule(osSecGroup.Rules[k])]]

---------------------------------------------------------------------------
(* The provider, as the networking client shows it *)

\* s.scope.ProjectID(): the project of the cluster, which owns what the client creates
ProjectID == "project"

\* the ids the provider gives to the groups it creates, in this order
GroupIDs == <<"sg-1", "sg-2", "sg-3", "sg-4">>

\* client.CreateSecGroup(groups.CreateOpts{Name: name}) succeeding: the new
\* provider state
CreateSecGroup(gs, id, name) ==
    Append(gs, [ID |-> id, Name |-> name, ProjectID |-> ProjectID, Rules |-> <<>>,
                Tags |-> <<>>])

\* client.DeleteSecGroup(id) succeeding: the new provider state
DeleteSecGroup(gs, id) == SelectSeq(gs, LAMBDA g : g.ID # id)

\* client.ReplaceAllAttributesTags("security-groups", id, tags) succeeding
ReplaceAllAttributesTags(gs, id, tags) ==
    [k \in 1..Len(gs) |-> IF gs[k].ID = id THEN [gs[k] EXCEPT !.Tags = tags] ELSE gs[k]]

\* groups.ListOpts, a field left out being its zero value
ListOpts(name, projectID) == [Name |-> name, ProjectID |-> projectID]

\* client.ListSecGroup(opts) on provider state gs, the groups the credentials
\* see: a zero field of opts filters nothing
ListSecGroup(gs, opts) ==
    SelectSeq(gs, LAMBDA g : /\ opts.Name \in {<<>>, g.Name}
                             /\ opts.ProjectID \in {"", g.ProjectID})

\* the wire rule (rules.SecGroupRule) the provider stores for createOpts
NewSecGroupRule(id, createOpts) ==
    [ID |-> id,
     Description |-> createOpts.Description,
     Direction |-> createOpts.Direction,
     EtherType |-> createOpts.EtherType,
     PortRangeMin |-> createOpts.PortRangeMin,
     PortRangeMax |-> createOpts.PortRangeMax,
     Protocol |-> createOpts.Protocol,
     RemoteGroupID |-> createOpts.RemoteGroupID,
     RemoteIPPrefix |-> createOpts.RemoteIPPrefix,
     SecGroupID |-> createOpts.SecGroupID]

\* client.CreateSecGroupRule(createOpts) succeeding: the new provider state
CreateSecGroupRule(gs, id, createOpts) ==
    [k \in 1..Len(gs) |->
        IF gs[k].ID = createOpts.SecGroupID
        THEN [gs[k] EXCEPT !.Rules = Append(@, NewSecGroupRule(id, createOpts))]
        ELSE gs[k]]

\* client.DeleteSecGroupRule(id) succeeding: the new provider state
DeleteSecGroupRule(gs, id) ==
    [k \in 1..Len(gs) |->
        [gs[k] EXCEPT !.Rules = SelectSeq(@, LAMBDA r : r.ID # id)]]

\* mutant: of several groups of the name the one created last is taken
getSecurityGroupByName_LastOfMany(gs, name) ==
    LET allGroups == ListSecGroup(gs, ListOpts(name, ""))
    IN  IF Len(allGroups) = 0
        THEN [status |-> EmptyStatus, err |-> NoErr]
        ELSE [status |-> convertOSSecGroupToConfigSecGroup(allGroups[Len(allGroups)]),
              err |-> NoErr]

\* mutant: of several groups of the name the first is taken
getSecurityGroupByName_FirstOfMany(gs, name) ==
    LET allGroups == ListSecGroup(gs, ListOpts(name, ""))
    IN  IF Len(allGroups) = 0
        THEN [status |-> EmptyStatus, err |-> NoErr]
        ELSE [status |-> convertOSSecGroupToConfigSecGroup(allGroups[1]), err |-> NoErr]

(* getSecurityGroupByName, lines 473-492, the list call having succeeded *)
getSecurityGroupByName(gs, name) ==
    LET opts == ListOpts(name, "")
        allGroups == ListSecGroup(gs, opts)
    IN
    CASE Len(allGroups) = 0 -> [status |-> EmptyStatus, err |-> NoErr]
      [] Len(allGroups) = 1 ->
            [status |-> convertOSSecGroupToConfigSecGroup(allGroups[1]), err |-> NoErr]
      [] OTHER -> [status |-> EmptyStatus, err |-> ErrAmbiguous]

---------------------------------------------------------------------------
(* reconcileGroupRules, lines 361-432 *)

\* lines 367-370, 386-389, 415-418: r := rule; 'self' becomes the group's id
ResolveSelf(rule, id) ==
    IF rule.RemoteGroupID = remoteGroupIDSelf
    THEN [rule EXCEPT !.RemoteGroupID = id]
    ELSE rule

\* mutant: the delete diff compares the sentinel itself
MatchedByDesired_Unresolved(d, o, observedRule) ==
    \E k \in 1..Len(d.Rules) : Matches(d.Rules[k], observedRule)

\* lines 366-375: some desired rule, 'self' resolved, matches observedRule
MatchedByDesired(d, o, observedRule) ==
    \E k \in 1..Len(d.Rules) : Matches(ResolveSelf(d.Rules[k], o.ID), observedRule)

\* mutant: the delete diff misses the last observed rule
ComputeRulesToDelete_SkipsLast(d, o) ==
    LET unmatched == SelectSeq(SubSeq(o.Rules, 1, Len(o.Rules) - 1),
                               LAMBDA r : ~MatchedByDesired(d, o, r))
    IN  [k \in 1..Len(unmatched) |-> unmatched[k].ID]

\* mutant: a rule nobody desires stays
ComputeRulesToDelete_None(d, o) == SubSeq(ComputeRulesToDelete_SkipsLast(d, o), 1, 0)

\* lines 362-379: observed - desired, as rule ids, in observed order
ComputeRulesToDelete(d, o) ==
    LET unmatched == SelectSeq(o.Rules, LAMBDA r : ~MatchedByDesired(d, o, r))
    IN  [k \in 1..Len(unmatched) |-> unmatched[k].ID]

\* lines 391-398: index of the first observed rule the resolved rule r matches, 0 if none
FirstMatch(r, o) ==
    IF \E k \in 1..Len(o.Rules) : Matches(r, o.Rules[k])
    THEN CHOOSE k \in 1..Len(o.Rules) :
            /\ Matches(r, o.Rules[k])
            /\ \A j \in 1..(k - 1) : ~Matches(r, o.Rules[j])
    ELSE 0

\* mutant: the create diff compares the sentinel itself
ComputeRulesToCreate_Unresolved(d, o) ==
    SelectSeq(d.Rules, LAMBDA r : FirstMatch(r, o) = 0)

\* mutant: a desired rule that is in the list already is not planned again
ComputeRulesToCreate_Deduplicated(d, o) ==
    LET u == SelectSeq(d.Rules, LAMBDA r : FirstMatch(ResolveSelf(r, o.ID), o) = 0)
        firsts == {k \in 1..Len(u) : \A j \in 1..(k - 1) : u[j] # u[k]}
        nth(n) == CHOOSE k \in firsts : Cardinality({j \in firsts : j < k}) = n - 1
    IN  [n \in 1..Cardinality(firsts) |-> u[nth(n)]]

\* lines 381-402: desired - observed, the desired rules as given, in desired order
ComputeRulesToCreate(d, o) ==
    SelectSeq(d.Rules, LAMBDA r : FirstMatch(ResolveSelf(r, o.ID), o) = 0)

\* lines 382-398: for each matched desired rule, in desired order, the first
\* observed rule it matches
ComputeReconciledRules(d, o) ==
    LET matched == SelectSeq(d.Rules, LAMBDA r : FirstMatch(ResolveSelf(r, o.ID), o) # 0)
    IN  [k \in 1..Len(matched) |-> o.Rules[FirstMatch(ResolveSelf(matched[k], o.ID), o)]]

\* mutant: the rule is passed to createRule as it stands in rulesToCreate
CreateOptsOf_Unresolved(rule, o) ==
    [Description |-> rule.Description,
     Direction |-> rule.Direction,
     PortRangeMin |-> rule.PortRangeMin,
     PortRangeMax |-> rule.PortRangeMax,
     Protocol |-> rule.Protocol,
     EtherType |-> rule.EtherType,
     RemoteGroupID |-> rule.RemoteGroupID,
     RemoteIPPrefix |-> rule.RemoteIPPrefix,
     SecGroupID |-> o.ID]

\* lines 415-419 and createRule, lines 494-509: the rules.CreateOpts of the call
CreateOptsOf(rule, o) ==
    LET r == ResolveSelf(rule, o.ID) IN
    [Description |-> r.Description,
     Direction |-> r.Direction,
     PortRangeMin |-> r.PortRangeMin,
     PortRangeMax |-> r.PortRangeMax,
     Protocol |-> r.Protocol,
     EtherType |-> r.EtherType,
     RemoteGroupID |-> r.RemoteGroupID,
     RemoteIPPrefix |-> r.RemoteIPPrefix,
     SecGroupID |-> o.ID]

\* mutant: the create loop is placed before the delete loop
PhaseAfter_CreateFirst(phase) ==
    CASE phase = "diff" -> "create"
      [] phase = "create" -> "delete"
      [] phase = "delete" -> "return"

\* the order of the function's blocks: the diff (lines 362-402), the delete
\* loop (lines 404-411), the create loop (lines 413-424), the return (425-431)
PhaseAfter(phase) ==
    CASE phase = "diff" -> "delete"
      [] phase = "delete" -> "create"
      [] phase = "create" -> "return"

\* mutant: the observed group is returned whatever the number of rules
ReturnedStatus_NoEmptyCheck(o, reconciled) == [o EXCEPT !.Rules = reconciled]

\* lines 425-431: the status returned by a pass in which no call failed
ReturnedStatus(o, reconciled) ==
    IF Len(reconciled) = 0
    THEN EmptyStatus
    ELSE [o EXCEPT !.Rules = reconciled]

---------------------------------------------------------------------------
(* The cluster configuration and the desired state, lines 40-57 and 124-284 *)

ErrList == "ListSecGroup failed"
ErrCreateGroup == "CreateSecGroup failed"
ErrTags == "ReplaceAllAttributesTags failed"
ErrDeleteGroup == "DeleteSecGroup failed"
ErrRemoteRequired == "remoteManagedGroups is required"
ErrRemoteInvalid == "remoteManagedGroups: not a valid remote managed security group"
ErrRemoteBoth == "remoteGroupID must not be set when remoteManagedGroups is set"

\* a Go map read: the value at k, the zero value when k is no key
MapGet(m, k, zero) == IF k \in DOMAIN m THEN m[k] ELSE zero

\* lines 47-57: suffix -> group name, bastion only when it is enabled
secGroupNamesOf(c) ==
    IF c.BastionEnabled
    THEN (controlPlaneSuffix :> getSecControlPlaneGroupName(ClusterName))
         @@ (workerSuffix :> getSecWorkerGroupName(ClusterName))
         @@ (bastionSuffix :> getSecBastionGroupName(ClusterName))
    ELSE (controlPlaneSuffix :> getSecControlPlaneGroupName(ClusterName))
         @@ (workerSuffix :> getSecWorkerGroupName(ClusterName))

(* The rule templates of securitygroups_rules.go, which is not among the
   sources: modelled after the specification, 4.2 steps 1-6. *)
\* step 1: the baseline common to all groups
defaultRules == <<RuleSpec("Full open", "egress", "IPv4", 0, 0, "", "", "")>>

\* step 2: API server HTTPS ingress
getSGControlPlaneHTTPS ==
    <<RuleSpec("Kubernetes API", "ingress", "IPv4", 6443, 6443, "tcp", "", "")>>

\* step 2: NodePort range ingress
getSGWorkerNodePort ==
    <<RuleSpec("Node Port Services", "ingress", "IPv4", 30000, 32767, "tcp", "", "")>>

\* step 3: one ingress rule per additional port
getSGControlPlaneAdditionalPorts(ports) ==
    [k \in 1..Len(ports) |->
        RuleSpec("Additional port", "ingress", "IPv4", ports[k], ports[k], "tcp", "", "")]

\* step 4, flag set: allow all from self and from the peer role
getSGControlPlaneAllowAll(selfID, secWorkerGroupID) ==
    <<RuleSpec("In-cluster Ingress", "ingress", "IPv4", 0, 0, "", selfID, ""),
      RuleSpec("In-cluster Ingress", "ingress", "IPv4", 0, 0, "", secWorkerGroupID, "")>>

getSGWorkerAllowAll(selfID, secControlPlaneGroupID) ==
    <<RuleSpec("In-cluster Ingress", "ingress", "IPv4", 0, 0, "", selfID, ""),
      RuleSpec("In-cluster Ingress", "ingress", "IPv4", 0, 0, "", secControlPlaneGroupID, "")>>

\* step 4, flag unset: the allow-list of cluster-internal ports
getSGControlPlaneGeneral(selfID, secWorkerGroupID) ==
    <<RuleSpec("Etcd", "ingress", "IPv4", 2379, 2380, "tcp", selfID, ""),
      RuleSpec("Kubelet API", "ingress", "IPv4", 10250, 10250, "tcp", selfID, ""),
      RuleSpec("Kubelet API", "ingress", "IPv4", 10250, 10250, "tcp", secWorkerGroupID, "")>>

getSGWorkerGeneral(selfID, secControlPlaneGroupID) ==
    <<RuleSpec("Kubelet API", "ingress", "IPv4", 10250, 10250, "tcp", selfID, ""),
      RuleSpec("Kubelet API", "ingress", "IPv4", 10250, 10250, "tcp", secControlPlaneGroupID, "")>>

\* step 6: SSH from the bastion group
getSGControlPlaneSSH(secBastionGroupID) ==
    <<RuleSpec("SSH", "ingress", "IPv4", 22, 22, "tcp", secBastionGroupID, "")>>

getSGWorkerSSH(secBastionGroupID) ==
    <<RuleSpec("SSH", "ingress", "IPv4", 22, 22, "tcp", secBastionGroupID, "")>>

(* validateRemoteManagedGroups, lines 273-284 *)
validateRemoteManagedGroups(rmg, ruleRemoteManagedGroups) ==
    IF Len(ruleRemoteManagedGroups) = 0
    THEN ErrRemoteRequired
    ELSE IF \E k \in 1..Len(ruleRemoteManagedGroups) :
                ruleRemoteManagedGroups[k] \notin DOMAIN rmg
    THEN ErrRemoteInvalid
    ELSE NoErr

\* lines 230-253: the template's fields, an absent one as the zero value
ResolvedTemplate(rule) ==
    RuleSpec(IF rule.Description # <<>> THEN Deref(rule.Description) ELSE "",
             rule.Direction,
             IF rule.EtherType # <<>> THEN Deref(rule.EtherType) ELSE "",
             IF rule.PortRangeMin # <<>> THEN Deref(rule.PortRangeMin) ELSE 0,
             IF rule.PortRangeMax # <<>> THEN Deref(rule.PortRangeMax) ELSE 0,
             IF rule.Protocol # <<>> THEN Deref(rule.Protocol) ELSE "",
             IF rule.RemoteGroupID # <<>> THEN Deref(rule.RemoteGroupID) ELSE "",
             IF rule.RemoteIPPrefix # <<>> THEN Deref(rule.RemoteIPPrefix) ELSE "")

\* mutant: the rules of one template share the last role's id
ExpandRemoteManagedGroups_SharedCopy(rmg, rule, r) ==
    [j \in 1..Len(rule.RemoteManagedGroups) |->
        [r EXCEPT !.RemoteGroupID =
                     rmg[rule.RemoteManagedGroups[Len(rule.RemoteManagedGroups)]]]]

\* lines 260-264: one copy of r per role, with the role's group id
ExpandRemoteManagedGroups(rmg, rule, r) ==
    [j \in 1..Len(rule.RemoteManagedGroups) |->
        [r EXCEPT !.RemoteGroupID = rmg[rule.RemoteManagedGroups[j]]]]

(* getAllNodesRules, lines 224-270: the loop from template k on, rules
   holding what the templates before k expanded to *)
RECURSIVE AllNodesRulesFrom(_, _, _, _)
AllNodesRulesFrom(rmg, templates, k, rules) ==
    IF k > Len(templates)
    THEN [rules |-> rules, err |-> NoErr]
    ELSE LET rule == templates[k]
             verr == validateRemoteManagedGroups(rmg, rule.RemoteManagedGroups)
             r == ResolvedTemplate(rule)
         IN  IF verr # NoErr
             THEN [rules |-> <<>>, err |-> verr]
             ELSE IF Len(rule.RemoteManagedGroups) > 0
             THEN IF rule.RemoteGroupID # <<>>
                  THEN [rules |-> <<>>, err |-> ErrRemoteBoth]
                  ELSE AllNodesRulesFrom(rmg, templates, k + 1,
                          rules \o ExpandRemoteManagedGroups(rmg, rule, r))
             ELSE AllNodesRulesFrom(rmg, templates, k + 1, Append(rules, r))

getAllNodesRules(rmg, allNodesSecurityGroupRules) ==
    AllNodesRulesFrom(rmg, allNodesSecurityGroupRules, 1, <<>>)

\* mutant: the worker list gets no all-nodes rule
WithAllNodesRules_ControlPlaneOnly(k, rules, allNodesRules) ==
    IF k = controlPlaneSuffix THEN rules \o allNodesRules ELSE rules

\* lines 186-187: the all-nodes rules are appended to the list of role k
WithAllNodesRules(k, rules, allNodesRules) == rules \o allNodesRules

\* mutant: the bastion's SSH rule comes after the default rules
bastionRules_DefaultFirst ==
    defaultRules \o <<RuleSpec("SSH", "ingress", "IPv4", 22, 22, "tcp", "", "")>>

\* lines 195-207: the rules of the bastion group
bastionRules ==
    <<RuleSpec("SSH", "ingress", "IPv4", 22, 22, "tcp", "", "")>> \o defaultRules

(* generateDesiredSecGroups, lines 125-127 and 159-220: the desired groups,
   the resolution table rmg filled by the lookups of lines 141-157 *)
GenerateDesired(c, names, rmg) ==
    LET secControlPlaneGroupID == MapGet(rmg, controlPlaneSuffix, "")
        secWorkerGroupID == MapGet(rmg, workerSuffix, "")
        secBastionGroupID == MapGet(rmg, bastionSuffix, "")
        cp1 == defaultRules \o getSGControlPlaneHTTPS
        wk1 == defaultRules \o getSGWorkerNodePort
        cp2 == IF c.LBEnabled
               THEN cp1 \o getSGControlPlaneAdditionalPorts(c.AdditionalPorts)
               ELSE cp1
        cp3 == IF c.AllowAllInClusterTraffic
               THEN cp2 \o getSGControlPlaneAllowAll(remoteGroupIDSelf, secWorkerGroupID)
               ELSE cp2 \o getSGControlPlaneGeneral(remoteGroupIDSelf, secWorkerGroupID)
        wk3 == IF c.AllowAllInClusterTraffic
               THEN wk1 \o getSGWorkerAllowAll(remoteGroupIDSelf, secControlPlaneGroupID)
               ELSE wk1 \o getSGWorkerGeneral(remoteGroupIDSelf, secControlPlaneGroupID)
        allNodes == getAllNodesRules(rmg, c.AllNodesSecurityGroupRules)
        cp4 == WithAllNodesRules(controlPlaneSuffix, cp3, allNodes.rules)
        wk4 == WithAllNodesRules(workerSuffix, wk3, allNodes.rules)
        cp5 == IF c.BastionEnabled THEN cp4 \o getSGControlPlaneSSH(secBastionGroupID) ELSE cp4
        wk5 == IF c.BastionEnabled THEN wk4 \o getSGWorkerSSH(secBastionGroupID) ELSE wk4
        two == (controlPlaneSuffix :> [Name |-> names[controlPlaneSuffix], Rules |-> cp5])
               @@ (workerSuffix :> [Name |-> names[workerSuffix], Rules |-> wk5])
    IN  IF ~c.ManagedSecurityGroups
        THEN [groups |-> <<>>, err |-> NoErr]
        ELSE IF allNodes.err # NoErr
        THEN [groups |-> <<>>, err |-> allNodes.err]
        ELSE IF c.BastionEnabled
        THEN [groups |->
                two @@ (bastionSuffix :>
                          [Name |-> names[bastionSuffix], Rules |-> bastionRules]),
              err |-> NoErr]
        ELSE [groups |-> two, err |-> NoErr]

---------------------------------------------------------------------------
(* Steps of ReconcileSecurityGroups, lines 40-95: one provider call per step *)

\* a provider call that fails uses up one of the failures still allowed
Fails == failBudget > 0 /\ failBudget' = failBudget - 1

\* ReconcileSecurityGroups returns err
Returns(err) == retErr' = err /\ pc' = "returned"

\* mutant: without managed groups the status fields are set to nil
Entry_ClearsStatus ==
    /\ pc = "entry"
    /\ IF ~cfg.ManagedSecurityGroups
       THEN /\ Returns(NoErr) /\ todo' = todo
            /\ clusterStatus' =
                  [ControlPlaneSecurityGroup |-> <<>>, WorkerSecurityGroup |-> <<>>,
                   BastionSecurityGroup |-> <<>>]
       ELSE /\ todo' = DOMAIN secGroupNamesOf(cfg)
            /\ pc' = "ensure"
            /\ retErr' = retErr
            /\ clusterStatus' = clusterStatus
    /\ UNCHANGED <<provVars, cfg, key, remoteManagedGroups,
                   desiredSecGroups, observedSecGroups, failBudget, ruleVars,
                   calls, pass, peer, switches, getVars, prevOK, lists>>

\* lines 40-57: nothing to do without managed groups; else the names of the groups
Entry ==
    /\ pc = "entry"
    /\ IF ~cfg.ManagedSecurityGroups
       THEN Returns(NoErr) /\ todo' = todo
       ELSE /\ todo' = DOMAIN secGroupNamesOf(cfg)
            /\ pc' = "ensure"
            /\ retErr' = retErr
    /\ UNCHANGED <<provVars, cfg, clusterStatus, key, remoteManagedGroups,
                   desiredSecGroups, observedSecGroups, failBudget, ruleVars,
                   calls, pass, peer, switches, getVars, prevOK, lists>>

\* mutant: the group is created whatever the lookup found
GroupIsAbsent_Always(secGroup) == secGroup.ID \in {"", secGroup.ID}

\* line 439: the lookup found no group (the pointer is never nil)
GroupIsAbsent(secGroup) == secGroup.ID = ""

\* mutant: a group found without tags is tagged when the cluster has tags
EnsureListOK_Retags ==
    /\ pc = "ensure"
    /\ \E k \in todo :
        LET name == secGroupNamesOf(cfg)[k]
            got == getSecurityGroupByName(secGroups, name)
            untagged == \E g \in 1..Len(secGroups) :
                           secGroups[g].ID = got.status.ID /\ secGroups[g].Tags = <<>>
        IN  /\ key' = k
            /\ IF got.err # NoErr
               THEN Returns(got.err) /\ todo' = todo /\ UNCHANGED <<secGroups, calls>>
               ELSE IF GroupIsAbsent(got.status)
               THEN /\ pc' = "ensureCreate" /\ todo' = todo /\ retErr' = retErr
                    /\ UNCHANGED <<secGroups, calls>>
               ELSE /\ pc' = "ensure" /\ todo' = todo \ {k} /\ retErr' = retErr
                    /\ IF Len(cfg.Tags) > 0 /\ untagged
                       THEN /\ secGroups' =
                                 ReplaceAllAttributesTags(secGroups, got.status.ID, cfg.Tags)
                            /\ calls' = Append(calls, [op |-> "ReplaceAllAttributesTags",
                                                       id |-> got.status.ID, ok |-> TRUE])
                       ELSE UNCHANGED <<secGroups, calls>>
    /\ UNCHANGED <<nextRuleID, nextGroupID, cfg, clusterStatus, remoteManagedGroups,
                   desiredSecGroups, observedSecGroups, failBudget, ruleVars, pass, peer,
                   switches, getVars, prevOK>>
    /\ lists' = lists + 1

\* lines 60-61 and 435-439, 467-470: createSecurityGroupIfNotExists looks the
\* next name up, in the map's order, which is any order
EnsureListOK ==
    /\ pc = "ensure"
    /\ \E k \in todo :
        LET name == secGroupNamesOf(cfg)[k]
            got == getSecurityGroupByName(secGroups, name)
        IN  /\ key' = k
            /\ IF got.err # NoErr
               THEN Returns(got.err) /\ todo' = todo
               ELSE IF GroupIsAbsent(got.status)
               THEN pc' = "ensureCreate" /\ todo' = todo /\ retErr' = retErr
               ELSE pc' = "ensure" /\ todo' = todo \ {k} /\ retErr' = retErr
    /\ UNCHANGED <<provVars, cfg, clusterStatus, remoteManagedGroups, desiredSecGroups,
                   observedSecGroups, failBudget, ruleVars, calls, pass, peer, switches, getVars, prevOK>>
    /\ lists' = lists + 1

\* lines 435-438, 61-63: the list call fails
EnsureListFail ==
    /\ pc = "ensure"
    /\ Fails
    /\ \E k \in todo : key' = k
    /\ Returns(ErrList)
    /\ UNCHANGED <<provVars, cfg, clusterStatus, todo, remoteManagedGroups,
                   desiredSecGroups, observedSecGroups, ruleVars, calls, pass, peer, switches, getVars, prevOK>>
    /\ lists' = lists + 1

\* mutant: the new group is tagged whatever the tag list
HasTags_Always(c) == Len(c.Tags) >= 0

\* line 454: the cluster has tags
HasTags(c) == Len(c.Tags) > 0

\* mutant: the name is looked up again right before the creation
EnsureCreateOK_LooksAgain ==
    /\ pc = "ensureCreate"
    /\ nextGroupID <= Len(GroupIDs)
    /\ LET name == secGroupNamesOf(cfg)[key] IN
        IF Len(ListSecGroup(secGroups, ListOpts(name, ""))) > 0
        THEN /\ pc' = "ensure" /\ todo' = todo \ {key}
             /\ UNCHANGED <<secGroups, calls, nextGroupID>>
        ELSE /\ secGroups' = CreateSecGroup(secGroups, GroupIDs[nextGroupID], name)
             /\ calls' = Append(calls, [op |-> "CreateSecGroup", name |-> name,
                                        id |-> GroupIDs[nextGroupID], ok |-> TRUE])
             /\ nextGroupID' = nextGroupID + 1
             /\ IF HasTags(cfg)
                THEN pc' = "ensureTag" /\ todo' = todo
                ELSE pc' = "ensure" /\ todo' = todo \ {key}
    /\ UNCHANGED <<nextRuleID, cfg, clusterStatus, key, remoteManagedGroups,
                   desiredSecGroups, observedSecGroups, retErr, failBudget, ruleVars,
                   pass, peer, switches, getVars, prevOK, lists>>

\* lines 442-454, 463-464: CreateSecGroup succeeds; tagging follows when the
\* cluster has tags
EnsureCreateOK ==
    /\ pc = "ensureCreate"
    /\ nextGroupID <= Len(GroupIDs)
    /\ LET name == secGroupNamesOf(cfg)[key] IN
        /\ secGroups' = CreateSecGroup(secGroups, GroupIDs[nextGroupID], name)
        /\ calls' = Append(calls, [op |-> "CreateSecGroup", name |-> name,
                                   id |-> GroupIDs[nextGroupID], ok |-> TRUE])
    /\ nextGroupID' = nextGroupID + 1
    /\ IF HasTags(cfg)
       THEN pc' = "ensureTag" /\ todo' = todo
       ELSE pc' = "ensure" /\ todo' = todo \ {key}
    /\ UNCHANGED <<nextRuleID, cfg, clusterStatus, key, remoteManagedGroups,
                   desiredSecGroups, observedSecGroups, retErr, failBudget, ruleVars,
                   pass, peer, switches, getVars, prevOK, lists>>

\* lines 448-452: CreateSecGroup fails
EnsureCreateFail ==
    /\ pc = "ensureCreate"
    /\ Fails
    /\ calls' = Append(calls, [op |-> "CreateSecGroup", name |-> secGroupNamesOf(cfg)[key],
                               id |-> "", ok |-> FALSE])
    /\ Returns(ErrCreateGroup)
    /\ UNCHANGED <<provVars, cfg, clusterStatus, todo, key, remoteManagedGroups,
                   desiredSecGroups, observedSecGroups, ruleVars, pass, peer, switches, getVars, prevOK, lists>>

\* lines 454-464: ReplaceAllAttributesTags on the new group succeeds
EnsureTagOK ==
    /\ pc = "ensureTag"
    /\ LET id == GroupIDs[nextGroupID - 1] IN
        /\ secGroups' = ReplaceAllAttributesTags(secGroups, id, cfg.Tags)
        /\ calls' = Append(calls, [op |-> "ReplaceAllAttributesTags", id |-> id, ok |-> TRUE])
    /\ pc' = "ensure"
    /\ todo' = todo \ {key}
    /\ UNCHANGED <<nextRuleID, nextGroupID, cfg, clusterStatus, key, remoteManagedGroups,
                   desiredSecGroups, observedSecGroups, retErr, failBudget, ruleVars,
                   pass, peer, switches, getVars, prevOK, lists>>

\* lines 455-460: ReplaceAllAttributesTags fails; the group stays
EnsureTagFail ==
    /\ pc = "ensureTag"
    /\ Fails
    /\ calls' = Append(calls, [op |-> "ReplaceAllAttributesTags",
                               id |-> GroupIDs[nextGroupID - 1], ok |-> FALSE])
    /\ Returns(ErrTags)
    /\ UNCHANGED <<provVars, cfg, clusterStatus, todo, key, remoteManagedGroups,
                   desiredSecGroups, observedSecGroups, ruleVars, pass, peer, switches, getVars, prevOK, lists>>

\* mutant: the ensure loop ends after its first name
EnsureDone_AfterFirst ==
    /\ pc = "ensure"
    /\ todo # DOMAIN secGroupNamesOf(cfg)
    /\ todo' = DOMAIN secGroupNamesOf(cfg)
    /\ remoteManagedGroups' = <<>>
    /\ pc' = "generate"
    /\ UNCHANGED <<provVars, cfg, clusterStatus, key, desiredSecGroups, observedSecGroups,
                   retErr, failBudget, ruleVars, calls, pass, peer, switches, getVars, prevOK, lists>>

\* lines 64-66, 125-139: every name is ensured; generateDesiredSecGroups starts
EnsureDone ==
    /\ pc = "ensure"
    /\ todo = {}
    /\ todo' = DOMAIN secGroupNamesOf(cfg)
    /\ remoteManagedGroups' = <<>>
    /\ pc' = "generate"
    /\ UNCHANGED <<provVars, cfg, clusterStatus, key, desiredSecGroups, observedSecGroups,
                   retErr, failBudget, ruleVars, calls, pass, peer, switches, getVars, prevOK, lists>>

\* mutant: the switch has no case for the bastion
TableWith_NoBastion(rmg, k, id) ==
    IF k \in {controlPlaneSuffix, workerSuffix} THEN (k :> id) @@ rmg ELSE rmg

\* lines 146-156: the id found for suffix k goes into the table
TableWith(rmg, k, id) ==
    IF k \in {controlPlaneSuffix, workerSuffix, bastionSuffix} THEN (k :> id) @@ rmg ELSE rmg

\* lines 141-157: the next group is looked up and its id put in the table
GenerateListOK ==
    /\ pc = "generate"
    /\ \E k \in todo :
        LET name == secGroupNamesOf(cfg)[k]
            got == getSecurityGroupByName(secGroups, name)
        IN  /\ key' = k
            /\ IF got.err # NoErr
               THEN /\ Returns(got.err)
                    /\ UNCHANGED <<todo, remoteManagedGroups>>
               ELSE /\ remoteManagedGroups' = TableWith(remoteManagedGroups, k, got.status.ID)
                    /\ todo' = todo \ {k}
                    /\ UNCHANGED <<pc, retErr>>
    /\ UNCHANGED <<provVars, cfg, clusterStatus, desiredSecGroups, observedSecGroups,
                   failBudget, ruleVars, calls, pass, peer, switches, getVars, prevOK>>
    /\ lists' = lists + 1

\* lines 142-145, 66-69: the list call fails
GenerateListFail ==
    /\ pc = "generate"
    /\ Fails
    /\ \E k \in todo : key' = k
    /\ Returns(ErrList)
    /\ UNCHANGED <<provVars, cfg, clusterStatus, todo, remoteManagedGroups,
                   desiredSecGroups, observedSecGroups, ruleVars, calls, pass, peer, switches, getVars, prevOK>>
    /\ lists' = lists + 1

\* mutant: rejected templates are left out and the invocation goes on
GenerateRules_Partial ==
    /\ pc = "generate"
    /\ todo = {}
    /\ LET gen == GenerateDesired(cfg, secGroupNamesOf(cfg), remoteManagedGroups)
           rest == GenerateDesired([cfg EXCEPT !.AllNodesSecurityGroupRules = <<>>],
                                   secGroupNamesOf(cfg), remoteManagedGroups)
       IN  /\ desiredSecGroups' = IF gen.err # NoErr THEN rest.groups ELSE gen.groups
           /\ todo' = DOMAIN rest.groups
    /\ observedSecGroups' = <<>>
    /\ pc' = "reconcile"
    /\ retErr' = retErr
    /\ UNCHANGED <<provVars, cfg, clusterStatus, key, remoteManagedGroups, failBudget,
                   ruleVars, calls, pass, peer, switches, getVars, prevOK, lists>>

\* lines 159-220, 66-71: the desired groups are built, or the templates rejected
GenerateRules ==
    /\ pc = "generate"
    /\ todo = {}
    /\ LET gen == GenerateDesired(cfg, secGroupNamesOf(cfg), remoteManagedGroups) IN
        IF gen.err # NoErr
        THEN /\ Returns(gen.err)
             /\ UNCHANGED <<todo, desiredSecGroups, observedSecGroups>>
        ELSE /\ desiredSecGroups' = gen.groups
             /\ observedSecGroups' = <<>>
             /\ todo' = DOMAIN gen.groups
             /\ pc' = "reconcile"
             /\ retErr' = retErr
    /\ UNCHANGED <<provVars, cfg, clusterStatus, key, remoteManagedGroups, failBudget,
                   ruleVars, calls, pass, peer, switches, getVars, prevOK, lists>>

\* lines 72-87: the next desired group is looked up by name; an existing one
\* goes to reconcileGroupRules
ReconcileFetchOK ==
    /\ pc = "reconcile"
    /\ \E k \in todo :
        LET got == getSecurityGroupByName(secGroups, desiredSecGroups[k].Name) IN
        /\ key' = k
        /\ desired' = desiredSecGroups[k]
        /\ observed' = got.status
        /\ IF got.err # NoErr
           THEN /\ Returns(got.err)
                /\ observedSecGroups' = (k :> Ptr(got.status)) @@ observedSecGroups
                /\ todo' = todo
           ELSE IF got.status.ID # ""
           THEN /\ pc' = "diff"
                /\ UNCHANGED <<todo, observedSecGroups, retErr>>
           ELSE /\ observedSecGroups' = (k :> Ptr(got.status)) @@ observedSecGroups
                /\ todo' = todo \ {k}
                /\ UNCHANGED <<pc, retErr>>
    /\ UNCHANGED <<provVars, cfg, clusterStatus, remoteManagedGroups, desiredSecGroups,
                   failBudget, rulesToDelete, rulesToCreate, reconciledRules, i, result,
                   calls, pass, peer, switches, getVars, prevOK>>
    /\ lists' = lists + 1

\* lines 74-78: the list call fails
ReconcileFetchFail ==
    /\ pc = "reconcile"
    /\ Fails
    /\ \E k \in todo : key' = k
    /\ Returns(ErrList)
    /\ UNCHANGED <<provVars, cfg, clusterStatus, todo, remoteManagedGroups,
                   desiredSecGroups, observedSecGroups, ruleVars, calls, pass, peer, switches, getVars, prevOK>>
    /\ lists' = lists + 1

---------------------------------------------------------------------------
(* Steps of reconcileGroupRules, lines 361-432, called at line 81 *)

\* what no step of reconcileGroupRules touches
callerVars == <<nextGroupID, cfg, clusterStatus, todo, key, remoteManagedGroups,
                desiredSecGroups, observedSecGroups, retErr, pass, peer, switches, getVars, prevOK, lists>>

\* lines 362-402: the two diff loops
ComputeDiff ==
    /\ pc = "diff"
    /\ rulesToDelete' = ComputeRulesToDelete(desired, observed)
    /\ rulesToCreate' = ComputeRulesToCreate(desired, observed)
    /\ reconciledRules' = ComputeReconciledRules(desired, observed)
    /\ i' = 1
    /\ pc' = PhaseAfter("diff")
    /\ UNCHANGED <<secGroups, nextRuleID, desired, observed, result, calls, failBudget,
                   callerVars>>

\* lines 405-411: one DeleteSecGroupRule call that succeeds
DeleteRuleOK ==
    /\ pc = "delete"
    /\ i <= Len(rulesToDelete)
    /\ secGroups' = DeleteSecGroupRule(secGroups, rulesToDelete[i])
    /\ calls' = Append(calls, [op |-> "DeleteSecGroupRule", id |-> rulesToDelete[i],
                               ok |-> TRUE])
    /\ i' = i + 1
    /\ UNCHANGED <<nextRuleID, desired, observed, rulesToDelete, rulesToCreate,
                   reconciledRules, pc, result, failBudget, callerVars>>

\* lines 407-410: the call fails; the pass returns the empty status and the error
DeleteRuleFail ==
    /\ pc = "delete"
    /\ i <= Len(rulesToDelete)
    /\ Fails
    /\ calls' = Append(calls, [op |-> "DeleteSecGroupRule", id |-> rulesToDelete[i],
                               ok |-> FALSE])
    /\ result' = [status |-> EmptyStatus, err |-> ErrDeleteRule]
    /\ pc' = "done"
    /\ UNCHANGED <<secGroups, nextRuleID, desired, observed, rulesToDelete,
                   rulesToCreate, reconciledRules, i, callerVars>>

\* line 411: the delete loop is over
DeletesDone ==
    /\ pc = "delete"
    /\ i > Len(rulesToDelete)
    /\ i' = 1
    /\ pc' = PhaseAfter("delete")
    /\ UNCHANGED <<secGroups, nextRuleID, desired, observed, rulesToDelete,
                   rulesToCreate, reconciledRules, result, calls, failBudget, callerVars>>

\* lines 414-424: one createRule call that succeeds; the new rule's status is
\* appended to reconciledRules
CreateRuleOK ==
    /\ pc = "create"
    /\ i <= Len(rulesToCreate)
    /\ LET createOpts == CreateOptsOf(rulesToCreate[i], observed)
           newRule == NewSecGroupRule(nextRuleID, createOpts)
       IN  /\ secGroups' = CreateSecGroupRule(secGroups, nextRuleID, createOpts)
           /\ reconciledRules' =
                 Append(reconciledRules, convertOSSecGroupRuleToConfigSecGroupRule(newRule))
           /\ calls' = Append(calls, [op |-> "CreateSecGroupRule", opts |-> createOpts,
                                      rule |-> rulesToCreate[i], ok |-> TRUE])
    /\ nextRuleID' = nextRuleID + 1
    /\ i' = i + 1
    /\ UNCHANGED <<desired, observed, rulesToDelete, rulesToCreate, pc, result,
                   failBudget, callerVars>>

\* mutant: a failed create undoes the creations of the pass
CreateRuleFail_Rollback ==
    /\ pc = "create"
    /\ i <= Len(rulesToCreate)
    /\ Fails
    /\ LET createdIDs == {reconciledRules[k].ID : k \in 1..Len(reconciledRules)}
                            \ {observed.Rules[k].ID : k \in 1..Len(observed.Rules)}
       IN  secGroups' = [k \in 1..Len(secGroups) |->
                           [secGroups[k] EXCEPT
                              !.Rules = SelectSeq(@, LAMBDA r : r.ID \notin createdIDs)]]
    /\ calls' = Append(calls, [op |-> "CreateSecGroupRule",
                               opts |-> CreateOptsOf(rulesToCreate[i], observed),
                               rule |-> rulesToCreate[i], ok |-> FALSE])
    /\ result' = [status |-> EmptyStatus, err |-> ErrCreateRule]
    /\ pc' = "done"
    /\ UNCHANGED <<nextRuleID, desired, observed, rulesToDelete,
                   rulesToCreate, reconciledRules, i, callerVars>>

\* lines 419-422: the call fails; the pass returns the empty status and the error
CreateRuleFail ==
    /\ pc = "create"
    /\ i <= Len(rulesToCreate)
    /\ Fails
    /\ calls' = Append(calls, [op |-> "CreateSecGroupRule",
                               opts |-> CreateOptsOf(rulesToCreate[i], observed),
                               rule |-> rulesToCreate[i], ok |-> FALSE])
    /\ result' = [status |-> EmptyStatus, err |-> ErrCreateRule]
    /\ pc' = "done"
    /\ UNCHANGED <<secGroups, nextRuleID, desired, observed, rulesToDelete,
                   rulesToCreate, reconciledRules, i, callerVars>>

\* line 424: the create loop is over
CreatesDone ==
    /\ pc = "create"
    /\ i > Len(rulesToCreate)
    /\ i' = 1
    /\ pc' = PhaseAfter("create")
    /\ UNCHANGED <<secGroups, nextRuleID, desired, observed, rulesToDelete,
                   rulesToCreate, reconciledRules, result, calls, failBudget, callerVars>>

\* lines 425-431: the pass returns the reconciled status
ReturnStatus ==
    /\ pc = "return"
    /\ result' = [status |-> ReturnedStatus(observed, reconciledRules), err |-> NoErr]
    /\ pc' = "done"
    /\ UNCHANGED <<secGroups, nextRuleID, desired, observed, rulesToDelete,
                   rulesToCreate, reconciledRules, i, calls, failBudget, callerVars>>

---------------------------------------------------------------------------
(* ReconcileSecurityGroups after reconcileGroupRules, lines 81-95 *)

\* mutant: the status of a group is written as soon as the group is reconciled
GroupDone_WritesStatus ==
    /\ pc = "done"
    /\ IF result.err # NoErr
       THEN /\ Returns(result.err)
            /\ UNCHANGED <<todo, observedSecGroups, clusterStatus>>
       ELSE /\ observedSecGroups' = (key :> Ptr(result.status)) @@ observedSecGroups
            /\ clusterStatus' =
                  CASE key = controlPlaneSuffix ->
                         [clusterStatus EXCEPT !.ControlPlaneSecurityGroup = Ptr(result.status)]
                    [] key = workerSuffix ->
                         [clusterStatus EXCEPT !.WorkerSecurityGroup = Ptr(result.status)]
                    [] OTHER ->
                         [clusterStatus EXCEPT !.BastionSecurityGroup = Ptr(result.status)]
            /\ todo' = todo \ {key}
            /\ pc' = "reconcile"
            /\ retErr' = retErr
    /\ UNCHANGED <<provVars, cfg, key, remoteManagedGroups,
                   desiredSecGroups, failBudget, ruleVars, calls, pass, peer, switches, getVars,
                   prevOK, lists>>

\* mutant: the loop goes on to the next group after a failed reconcileGroupRules
GroupDone_IgnoresError ==
    /\ pc = "done"
    /\ observedSecGroups' = (key :> Ptr(result.status)) @@ observedSecGroups
    /\ todo' = todo \ {key}
    /\ pc' = "reconcile"
    /\ retErr' = retErr
    /\ UNCHANGED <<provVars, cfg, clusterStatus, key, remoteManagedGroups,
                   desiredSecGroups, failBudget, ruleVars, calls, pass, peer, switches, getVars, prevOK, lists>>

\* lines 81-86: an error ends the invocation; else the status is kept for the
\* group and the loop goes on
GroupDone ==
    /\ pc = "done"
    /\ IF result.err # NoErr
       THEN /\ Returns(result.err)
            /\ UNCHANGED <<todo, observedSecGroups>>
       ELSE /\ observedSecGroups' = (key :> Ptr(result.status)) @@ observedSecGroups
            /\ todo' = todo \ {key}
            /\ pc' = "reconcile"
            /\ retErr' = retErr
    /\ UNCHANGED <<provVars, cfg, clusterStatus, key, remoteManagedGroups,
                   desiredSecGroups, failBudget, ruleVars, calls, pass, peer, switches, getVars, prevOK, lists>>

\* lines 90-94: every desired group is reconciled; the three status fields are
\* set, a group not in the map to nil
SetStatus ==
    /\ pc = "reconcile"
    /\ todo = {}
    /\ clusterStatus' =
          [ControlPlaneSecurityGroup |-> MapGet(observedSecGroups, controlPlaneSuffix, <<>>),
           WorkerSecurityGroup |-> MapGet(observedSecGroups, workerSuffix, <<>>),
           BastionSecurityGroup |-> MapGet(observedSecGroups, bastionSuffix, <<>>)]
    /\ Returns(NoErr)
    /\ UNCHANGED <<provVars, cfg, todo, key, remoteManagedGroups, desiredSecGroups,
                   observedSecGroups, failBudget, ruleVars, calls, pass, peer, switches, getVars, prevOK, lists>>

\* the locals of a fresh invocation
FreshLocals ==
    /\ calls' = <<>>
    /\ rulesToDelete' = <<>>
    /\ rulesToCreate' = <<>>
    /\ reconciledRules' = <<>>
    /\ i' = 1
    /\ result' = [status |-> EmptyStatus, err |-> NoErr]
    /\ observedSecGroups' = <<>>
    /\ key' = ""
    /\ desired' = [Name |-> <<>>, Rules |-> <<>>]
    /\ observed' = EmptyStatus
    /\ prevOK' = (retErr = NoErr)
    /\ lists' = 0

\* the controller invokes ReconcileSecurityGroups again, the configuration unchanged
Invoke ==
    /\ pc = "returned"
    /\ pc' = "entry"
    /\ FreshLocals
    /\ todo' = {}
    /\ remoteManagedGroups' = <<>>
    /\ desiredSecGroups' = <<>>
    /\ UNCHANGED <<provVars, cfg, clusterStatus, retErr, failBudget, pass, peer, switches, getVars>>

\* another pass over the same desired groups: the loop of lines 71-88 again,
\* on the observed state fetched again
NextPass ==
    /\ pc = "returned"
    /\ pass < MaxPasses
    /\ pass' = pass + 1
    /\ pc' = "reconcile"
    /\ FreshLocals
    /\ todo' = DOMAIN desiredSecGroups
    /\ UNCHANGED <<provVars, cfg, clusterStatus, remoteManagedGroups,
                   desiredSecGroups, retErr, failBudget, peer, switches, getVars>>

---------------------------------------------------------------------------
(* Inputs: desired rule lists, configurations and provider states *)

SSHFrom(rgid, rip) == RuleSpec("", "ingress", "IPv4", 22, 22, "tcp", rgid, rip)

\* the rules a desired list is drawn from
DesiredUniverse ==
    {SSHFrom(remoteGroupIDSelf, ""), SSHFrom("sg-1", ""), SSHFrom("sg-2", ""),
     RuleSpec("Full open", "egress", "IPv4", 0, 0, "", "", "")}

\* the rules the provider may hold for a group when a pass starts
ObservedUniverse ==
    {SSHFrom("sg-1", ""), SSHFrom("sg-2", ""),
     RuleSpec("Full open", "egress", "IPv4", 0, 0, "", "", ""),
     RuleSpec("", "ingress", "IPv4", 53, 53, "udp", "", "")}

SeqsUpTo(S, n) == UNION {[1..m -> S] : m \in 0..n}

\* the provider's rule of group gid with id k and the fields of spec
WireRule(k, spec, gid) == NewSecGroupRule(k, spec @@ [SecGroupID |-> gid])

\* a provider group
SecGroup(id, name, rules) ==
    [ID |-> id, Name |-> name, ProjectID |-> ProjectID, Rules |-> rules, Tags |-> <<>>]

\* a cluster configuration
Config(bastion, allowAll, lbPorts, templates, tags) ==
    [ManagedSecurityGroups |-> TRUE,
     BastionEnabled |-> bastion,
     AllowAllInClusterTraffic |-> allowAll,
     LBEnabled |-> lbPorts # <<>>,
     AdditionalPorts |-> lbPorts,
     AllNodesSecurityGroupRules |-> templates,
     Tags |-> tags]

\* an all-nodes rule template (infrav1.SecurityGroupRuleSpec)
Template(desc, pmin, pmax, proto, remoteGroupID, managedGroups) ==
    [Description |-> Ptr(desc), Direction |-> "ingress", EtherType |-> Ptr("IPv4"),
     PortRangeMin |-> Ptr(pmin), PortRangeMax |-> Ptr(pmax), Protocol |-> Ptr(proto),
     RemoteGroupID |-> remoteGroupID, RemoteIPPrefix |-> <<>>,
     RemoteManagedGroups |-> managedGroups]

\* no invocation runs concurrently
NoPeer == <<>>

NilStatus ==
    [ControlPlaneSecurityGroup |-> <<>>, WorkerSecurityGroup |-> <<>>,
     BastionSecurityGroup |-> <<>>]

\* GetSecurityGroups is not called
NoFilters == securityGroupParams = <<>> /\ sgIDs = <<>>

\* the locals before the first invocation
InitLocals ==
    /\ key = ""
    /\ remoteManagedGroups = <<>>
    /\ observedSecGroups = <<>>
    /\ clusterStatus = NilStatus
    /\ retErr = NoErr
    /\ desired = [Name |-> <<>>, Rules |-> <<>>]
    /\ observed = EmptyStatus
    /\ rulesToDelete = <<>>
    /\ rulesToCreate = <<>>
    /\ reconciledRules = <<>>
    /\ i = 1
    /\ result = [status |-> EmptyStatus, err |-> NoErr]
    /\ calls = <<>>
    /\ pass = 1
    /\ prevOK = FALSE
    /\ lists = 0

(* reconcileGroupRules on every desired list and every observed list of
   either group: the loop of lines 71-88 over one desired group *)
Init ==
    \E t \in 1..2, D \in SeqsUpTo(DesiredUniverse, MaxDesired),
       O \in SeqsUpTo(ObservedUniverse, MaxObserved) :
        LET suffix == <<controlPlaneSuffix, workerSuffix>>
            cfg0 == Config(FALSE, FALSE, <<>>, <<>>, <<>>)
            names == secGroupNamesOf(cfg0)
        IN
        /\ secGroups =
              [g \in 1..2 |->
                 SecGroup(GroupIDs[g], names[suffix[g]],
                          IF g = t
                          THEN [k \in 1..Len(O) |-> WireRule(k, O[k], GroupIDs[g])]
                          ELSE <<WireRule(0, SSHFrom("", "0.0.0.0/0"), GroupIDs[g])>>)]
        /\ nextRuleID = Len(O) + 1
        /\ nextGroupID = 3
        /\ cfg = cfg0
        /\ desiredSecGroups = (suffix[t] :> [Name |-> names[suffix[t]], Rules |-> D])
        /\ todo = {suffix[t]}
        /\ failBudget = MaxPasses
        /\ pc = "reconcile"
        /\ InitLocals
        /\ peer = NoPeer /\ switches = 0 /\ NoFilters

Next ==
    \/ ReconcileFetchOK
    \/ ReconcileFetchFail
    \/ ComputeDiff
    \/ DeleteRuleOK
    \/ DeleteRuleFail
    \/ DeletesDone
    \/ CreateRuleOK
    \/ CreateRuleFail
    \/ CreatesDone
    \/ ReturnStatus
    \/ GroupDone
    \/ SetStatus
    \/ NextPass

Spec == Init /\ [][Next]_vars

(* ReconcileSecurityGroups invoked again and again with one configuration;
   at most MaxFailures provider calls fail *)
\* the provider's rules of group id for the desired rules: ids from+1, from+2, ...
WireRules(from, rules, id) ==
    [k \in 1..Len(rules) |-> WireRule(from + k, ResolveSelf(rules[k], id), id)]

FlowInputs ==
    LET foreign == RuleSpec("", "ingress", "IPv4", 53, 53, "udp", "", "")
        cp(rules) == SecGroup(GroupIDs[1], getSecControlPlaneGroupName(ClusterName), rules)
        worker(rules) == SecGroup(GroupIDs[2], getSecWorkerGroupName(ClusterName), rules)
        BGP(managedGroups) == Template("BGP", 179, 179, "tcp", <<>>, managedGroups)
        off == Config(FALSE, TRUE, <<>>, <<>>, <<"tag">>)
        was == GenerateDesired(off, secGroupNamesOf(off),
                               (controlPlaneSuffix :> GroupIDs[1])
                                  @@ (workerSuffix :> GroupIDs[2])).groups
    IN  {\* a new cluster
         [cfg |-> Config(FALSE, TRUE, <<>>, <<>>, <<>>), secGroups |-> <<>>],
         \* the control plane group is there, with a rule nobody desires
         [cfg |-> Config(FALSE, FALSE, <<8443>>,
                         <<BGP(<<controlPlaneSuffix, workerSuffix>>)>>, <<"tag">>),
          secGroups |-> <<cp(<<WireRule(1, foreign, GroupIDs[1])>>)>>],
         \* the bastion is enabled on a cluster that had converged without it
         [cfg |-> Config(TRUE, TRUE, <<>>, <<>>, <<"tag">>),
          secGroups |->
             <<cp(WireRules(0, was[controlPlaneSuffix].Rules, GroupIDs[1])),
               worker(WireRules(Len(was[controlPlaneSuffix].Rules),
                                was[workerSuffix].Rules, GroupIDs[2]))>>]}

\* the number of rules the provider state gs holds
RECURSIVE CountRules(_)
CountRules(gs) == IF gs = <<>> THEN 0 ELSE Len(Head(gs).Rules) + CountRules(Tail(gs))

\* the first invocation of ReconcileSecurityGroups on input in
StartFrom(in) ==
    /\ secGroups = in.secGroups
    /\ nextRuleID = CountRules(in.secGroups) + 1
    /\ nextGroupID = Len(in.secGroups) + 1
    /\ cfg = in.cfg
    /\ desiredSecGroups = <<>>
    /\ todo = {}
    /\ failBudget = MaxFailures
    /\ pc = "entry"
    /\ InitLocals

FlowInit == \E in \in FlowInputs : StartFrom(in) /\ peer = NoPeer /\ switches = 0 /\ NoFilters

FlowNext ==
    \/ Entry
    \/ EnsureListOK
    \/ EnsureListFail
    \/ EnsureCreateOK
    \/ EnsureCreateFail
    \/ EnsureTagOK
    \/ EnsureTagFail
    \/ EnsureDone
    \/ GenerateListOK
    \/ GenerateListFail
    \/ GenerateRules
    \/ ReconcileFetchOK
    \/ ReconcileFetchFail
    \/ ComputeDiff
    \/ DeleteRuleOK
    \/ DeleteRuleFail
    \/ DeletesDone
    \/ CreateRuleOK
    \/ CreateRuleFail
    \/ CreatesDone
    \/ ReturnStatus
    \/ GroupDone
    \/ SetStatus
    \/ Invoke

FlowSpec == FlowInit /\ [][FlowNext]_vars

\* the controller keeps invoking and every started call ends
FairSpec == FlowSpec /\ WF_vars(FlowNext)

\* a security group id that is none of the cluster's
OtherGroupID == "sg-other"

(* DeleteSecurityGroups, lines 321-338, and deleteSecurityGroup, lines 340-357:
   i is the index of the loop of line 331, observed the group of line 341 *)

\* mutant: the bastion's name is deleted whether the bastion is enabled or not
deleteNamesOf_WithBastion(c) ==
    <<getSecControlPlaneGroupName(ClusterName), getSecWorkerGroupName(ClusterName),
      getSecBastionGroupName(ClusterName)>>

\* lines 322-329: the names to delete, the bastion's when it is enabled
deleteNamesOf(c) ==
    IF c.BastionEnabled
    THEN <<getSecControlPlaneGroupName(ClusterName), getSecWorkerGroupName(ClusterName),
           getSecBastionGroupName(ClusterName)>>
    ELSE <<getSecControlPlaneGroupName(ClusterName), getSecWorkerGroupName(ClusterName)>>

\* mutant: DeleteSecGroup is called whatever the lookup found
NothingToDelete_Never(group) == group.ID \notin {"", group.ID}

\* line 345: the lookup found no group
NothingToDelete(group) == group.ID = ""

\* what no step of DeleteSecurityGroups touches
keptByDelete == <<nextRuleID, nextGroupID, cfg, clusterStatus, todo, key,
                  remoteManagedGroups, desiredSecGroups, observedSecGroups, desired,
                  rulesToDelete, rulesToCreate, reconciledRules, result, pass, peer, switches, getVars, prevOK>>

\* lines 331-332, 341-348: the next name is looked up; no group, nothing to do
DeleteLookupOK ==
    /\ pc = "deleteLookup"
    /\ i <= Len(deleteNamesOf(cfg))
    /\ LET got == getSecurityGroupByName(secGroups, deleteNamesOf(cfg)[i]) IN
        /\ observed' = got.status
        /\ IF got.err # NoErr
           THEN Returns(got.err) /\ i' = i
           ELSE IF NothingToDelete(got.status)
           THEN i' = i + 1 /\ UNCHANGED <<pc, retErr>>
           ELSE pc' = "deleteCall" /\ UNCHANGED <<i, retErr>>
    /\ lists' = lists + 1
    /\ UNCHANGED <<secGroups, failBudget, calls, keptByDelete>>

\* lines 341-344, 332-334: the list call fails
DeleteLookupFail ==
    /\ pc = "deleteLookup"
    /\ i <= Len(deleteNamesOf(cfg))
    /\ Fails
    /\ Returns(ErrList)
    /\ lists' = lists + 1
    /\ UNCHANGED <<secGroups, i, observed, calls, keptByDelete>>

\* lines 349, 355-356: DeleteSecGroup succeeds
DeleteGroupOK ==
    /\ pc = "deleteCall"
    /\ secGroups' = DeleteSecGroup(secGroups, observed.ID)
    /\ calls' = Append(calls, [op |-> "DeleteSecGroup", id |-> observed.ID, ok |-> TRUE])
    /\ i' = i + 1
    /\ pc' = "deleteLookup"
    /\ UNCHANGED <<failBudget, retErr, observed, lists, keptByDelete>>

\* lines 349-353, 332-334: DeleteSecGroup fails
DeleteGroupFail ==
    /\ pc = "deleteCall"
    /\ Fails
    /\ calls' = Append(calls, [op |-> "DeleteSecGroup", id |-> observed.ID, ok |-> FALSE])
    /\ Returns(ErrDeleteGroup)
    /\ UNCHANGED <<secGroups, i, observed, lists, keptByDelete>>

\* line 337: every name is done
DeleteGroupsDone ==
    /\ pc = "deleteLookup"
    /\ i > Len(deleteNamesOf(cfg))
    /\ Returns(NoErr)
    /\ UNCHANGED <<secGroups, failBudget, i, observed, calls, lists, keptByDelete>>

\* the controller invokes DeleteSecurityGroups again
InvokeDelete ==
    /\ pc = "returned"
    /\ pc' = "deleteLookup"
    /\ FreshLocals
    /\ UNCHANGED <<provVars, cfg, clusterStatus, todo, remoteManagedGroups,
                   desiredSecGroups, retErr, failBudget, pass, peer, switches, getVars>>

\* provider states a deletion may find: of each group of the cluster none,
\* one, with or without rules, or two of the name
DeleteInputs ==
    LET name == <<getSecControlPlaneGroupName(ClusterName), getSecWorkerGroupName(ClusterName),
                  getSecBastionGroupName(ClusterName)>>
        rule(id) == <<WireRule(1, SSHFrom("", "0.0.0.0/0"), id)>>
        choice(k) == {<<>>, <<SecGroup(GroupIDs[k], name[k], <<>>)>>}
                        \cup IF k = 1
                             THEN {<<SecGroup(GroupIDs[k], name[k], rule(GroupIDs[k]))>>,
                                   <<SecGroup(GroupIDs[k], name[k], <<>>),
                                     SecGroup(OtherGroupID, name[k], <<>>)>>}
                             ELSE {}
    IN  {[cfg |-> Config(bastion, TRUE, <<>>, <<>>, <<>>), secGroups |-> a \o b \o c] :
            bastion \in BOOLEAN, a \in choice(1), b \in choice(2), c \in choice(3)}

DeleteInit ==
    \E in \in DeleteInputs :
        /\ secGroups = in.secGroups
        /\ nextRuleID = CountRules(in.secGroups) + 1
        /\ nextGroupID = Len(in.secGroups) + 1
        /\ cfg = in.cfg
        /\ desiredSecGroups = <<>>
        /\ todo = {}
        /\ failBudget = MaxFailures
        /\ pc = "deleteLookup"
        /\ InitLocals
        /\ peer = NoPeer /\ switches = 0 /\ NoFilters

DeleteNext ==
    \/ DeleteLookupOK
    \/ DeleteLookupFail
    \/ DeleteGroupOK
    \/ DeleteGroupFail
    \/ DeleteGroupsDone
    \/ InvokeDelete

DeleteSpec == DeleteInit /\ [][DeleteNext]_vars

(* ReconcileSecurityGroups on more configurations and provider states: rule
   templates the generation rejects, templates of one to three roles, names
   the provider lists twice, groups of another project *)
\* a project that is not the cluster's
OtherProjectID == "other-project"

ConfigInputs ==
    LET cpName == getSecControlPlaneGroupName(ClusterName)
        workerName == getSecWorkerGroupName(ClusterName)
        bastionName == getSecBastionGroupName(ClusterName)
        foreign == RuleSpec("", "ingress", "IPv4", 53, 53, "udp", "", "")
        two == <<SecGroup(GroupIDs[1], cpName, <<>>), SecGroup(GroupIDs[2], workerName, <<>>)>>
        plain == Config(TRUE, TRUE, <<>>, <<>>, <<>>)
        was == GenerateDesired(plain, secGroupNamesOf(plain),
                               (controlPlaneSuffix :> GroupIDs[1])
                                  @@ (workerSuffix :> GroupIDs[2])
                                  @@ (bastionSuffix :> GroupIDs[3])).groups
        n1 == Len(was[controlPlaneSuffix].Rules)
        n2 == Len(was[workerSuffix].Rules)
        settled == <<SecGroup(GroupIDs[1], cpName,
                              WireRules(0, was[controlPlaneSuffix].Rules, GroupIDs[1])),
                     SecGroup(GroupIDs[2], workerName,
                              WireRules(n1, was[workerSuffix].Rules, GroupIDs[2])),
                     SecGroup(GroupIDs[3], bastionName,
                              WireRules(n1 + n2, was[bastionSuffix].Rules, GroupIDs[3]))>>
        both == Template("BGP", 179, 179, "tcp", Ptr(OtherGroupID), <<controlPlaneSuffix>>)
        direct == Template("BGP", 179, 179, "tcp", Ptr(OtherGroupID), <<>>)
        roles(managedGroups) == Template("BGP", 179, 179, "tcp", <<>>, managedGroups)
        sparse == [Description |-> <<>>, Direction |-> "egress", EtherType |-> <<>>,
                   PortRangeMin |-> <<>>, PortRangeMax |-> <<>>, Protocol |-> <<>>,
                   RemoteGroupID |-> <<>>, RemoteIPPrefix |-> Ptr("10.0.0.0/8"),
                   RemoteManagedGroups |-> <<workerSuffix>>]
        with(templates, tags) == Config(FALSE, TRUE, <<>>, templates, tags)
        otherCP == [SecGroup(GroupIDs[3], cpName, <<WireRule(1, foreign, GroupIDs[3])>>)
                      EXCEPT !.ProjectID = OtherProjectID]
    IN  FlowInputs \cup
        {\* a template with a direct reference and a role, on a new cluster
         [cfg |-> with(<<both>>, <<"tag">>), secGroups |-> <<>>],
         \* the same, the groups being there
         [cfg |-> with(<<roles(<<workerSuffix>>), both>>, <<>>), secGroups |-> two],
         \* the bastion role without a bastion
         [cfg |-> with(<<roles(<<controlPlaneSuffix, bastionSuffix>>)>>, <<>>),
          secGroups |-> <<>>],
         \* a template with a direct reference only
         [cfg |-> with(<<direct>>, <<>>), secGroups |-> two],
         \* templates of three roles and of one, the second with the direction
         \* only, on a cluster that has converged without them
         [cfg |-> Config(TRUE, TRUE, <<>>,
                         <<roles(<<workerSuffix, bastionSuffix, controlPlaneSuffix>>), sparse>>,
                         <<>>),
          secGroups |-> settled],
         \* two groups of the cluster's project bear the control plane's name
         [cfg |-> with(<<>>, <<>>),
          secGroups |-> <<two[1], two[2], SecGroup(GroupIDs[3], cpName, <<>>)>>],
         \* a group of another project bears the control plane's name
         [cfg |-> with(<<>>, <<>>), secGroups |-> <<two[1], two[2], otherCP>>],
         \* the same, the cluster having no control plane group yet
         [cfg |-> with(<<>>, <<>>),
          secGroups |-> <<[otherCP EXCEPT !.ID = GroupIDs[1],
                                          !.Rules = <<WireRule(1, foreign, GroupIDs[1])>>]>>]}

ConfigInit == \E in \in ConfigInputs : StartFrom(in) /\ peer = NoPeer /\ switches = 0 /\ NoFilters

ConfigSpec == ConfigInit /\ [][FlowNext]_vars

(* The life of a cluster: ReconcileSecurityGroups and DeleteSecurityGroups
   invoked in any order, the configuration changing between two invocations *)
\* the cluster is edited: the bastion is disabled
DisableBastion ==
    /\ pc = "returned"
    /\ cfg.BastionEnabled
    /\ cfg' = [cfg EXCEPT !.BastionEnabled = FALSE]
    /\ UNCHANGED <<provVars, clusterStatus, flowVars, retErr, failBudget, ruleVars, pc,
                   calls, pass, peer, switches, getVars, prevOK, lists>>

\* the cluster is edited: the managed security groups are given up
DisableManagedGroups ==
    /\ pc = "returned"
    /\ cfg.ManagedSecurityGroups
    /\ cfg' = [cfg EXCEPT !.ManagedSecurityGroups = FALSE]
    /\ UNCHANGED <<provVars, clusterStatus, flowVars, retErr, failBudget, ruleVars, pc,
                   calls, pass, peer, switches, getVars, prevOK, lists>>

LifeInputs ==
    LET off == Config(FALSE, TRUE, <<>>, <<>>, <<"tag">>)
        was == GenerateDesired(off, secGroupNamesOf(off),
                               (controlPlaneSuffix :> GroupIDs[1])
                                  @@ (workerSuffix :> GroupIDs[2])).groups
        n1 == Len(was[controlPlaneSuffix].Rules)
    IN  {\* the bastion is enabled on a cluster that had converged without it
         [cfg |-> Config(TRUE, TRUE, <<>>, <<>>, <<"tag">>),
          secGroups |->
             <<SecGroup(GroupIDs[1], getSecControlPlaneGroupName(ClusterName),
                        WireRules(0, was[controlPlaneSuffix].Rules, GroupIDs[1])),
               SecGroup(GroupIDs[2], getSecWorkerGroupName(ClusterName),
                        WireRules(n1, was[workerSuffix].Rules, GroupIDs[2]))>>],
         \* two groups bear the worker's name
         [cfg |-> Config(FALSE, TRUE, <<>>, <<>>, <<>>),
          secGroups |->
             <<SecGroup(GroupIDs[1], getSecControlPlaneGroupName(ClusterName), <<>>),
               SecGroup(GroupIDs[2], getSecWorkerGroupName(ClusterName),
                        <<WireRule(1, SSHFrom("", "0.0.0.0/0"), GroupIDs[2])>>),
               SecGroup(GroupIDs[3], getSecWorkerGroupName(ClusterName), <<>>)>>]}

LifeInit == \E in \in LifeInputs : StartFrom(in) /\ peer = NoPeer /\ switches = 0 /\ NoFilters

LifeNext ==
    \/ Entry
    \/ EnsureListOK
    \/ EnsureListFail
    \/ EnsureCreateOK
    \/ EnsureCreateFail
    \/ EnsureTagOK
    \/ EnsureTagFail
    \/ EnsureDone
    \/ GenerateListOK
    \/ GenerateListFail
    \/ GenerateRules
    \/ ReconcileFetchOK
    \/ ReconcileFetchFail
    \/ ComputeDiff
    \/ DeleteRuleOK
    \/ DeleteRuleFail
    \/ DeletesDone
    \/ CreateRuleOK
    \/ CreateRuleFail
    \/ CreatesDone
    \/ ReturnStatus
    \/ GroupDone
    \/ SetStatus
    \/ Invoke
    \/ DeleteLookupOK
    \/ DeleteLookupFail
    \/ DeleteGroupOK
    \/ DeleteGroupFail
    \/ DeleteGroupsDone
    \/ InvokeDelete
    \/ DisableBastion
    \/ DisableManagedGroups

LifeSpec == LifeInit /\ [][LifeNext]_vars

(* Two invocations of ReconcileSecurityGroups for the same cluster, nothing
   keeping them apart: each runs once, and between any two steps of one the
   other may run.  The variables hold the locals of the invocation that
   runs, peer those of the other. *)
\* the locals of the invocation that runs
LocalsNow ==
    [todo |-> todo, key |-> key, remoteManagedGroups |-> remoteManagedGroups,
     desiredSecGroups |-> desiredSecGroups, observedSecGroups |-> observedSecGroups,
     retErr |-> retErr, desired |-> desired, observed |-> observed,
     rulesToDelete |-> rulesToDelete, rulesToCreate |-> rulesToCreate,
     reconciledRules |-> reconciledRules, i |-> i, pc |-> pc, result |-> result,
     calls |-> calls, prevOK |-> prevOK, lists |-> lists]

\* the other invocation runs on from where it was
Switch ==
    /\ switches < MaxSwitches
    /\ switches' = switches + 1
    /\ peer' = LocalsNow
    /\ todo' = peer.todo
    /\ key' = peer.key
    /\ remoteManagedGroups' = peer.remoteManagedGroups
    /\ desiredSecGroups' = peer.desiredSecGroups
    /\ observedSecGroups' = peer.observedSecGroups
    /\ retErr' = peer.retErr
    /\ desired' = peer.desired
    /\ observed' = peer.observed
    /\ rulesToDelete' = peer.rulesToDelete
    /\ rulesToCreate' = peer.rulesToCreate
    /\ reconciledRules' = peer.reconciledRules
    /\ i' = peer.i
    /\ pc' = peer.pc
    /\ result' = peer.result
    /\ calls' = peer.calls
    /\ prevOK' = peer.prevOK
    /\ lists' = peer.lists
    /\ UNCHANGED <<provVars, cfg, clusterStatus, failBudget, pass, getVars>>

RaceInputs ==
    LET c == Config(FALSE, TRUE, <<>>, <<>>, <<"tag">>)
        foreign == RuleSpec("", "ingress", "IPv4", 53, 53, "udp", "", "")
        was == GenerateDesired(c, secGroupNamesOf(c),
                               (controlPlaneSuffix :> GroupIDs[1])
                                  @@ (workerSuffix :> "")).groups
    IN  {\* the control plane group is there, with the rules of a cluster
         \* without worker group and a rule nobody desires; no worker group
         [cfg |-> c,
          secGroups |->
             <<SecGroup(GroupIDs[1], getSecControlPlaneGroupName(ClusterName),
                        WireRules(0, was[controlPlaneSuffix].Rules, GroupIDs[1])
                           \o <<WireRule(9, foreign, GroupIDs[1])>>)>>]}

RaceInit ==
    \E in \in RaceInputs : StartFrom(in) /\ peer = LocalsNow /\ switches = 0 /\ NoFilters

RaceNext ==
    \/ Entry
    \/ EnsureListOK
    \/ EnsureListFail
    \/ EnsureCreateOK
    \/ EnsureCreateFail
    \/ EnsureTagOK
    \/ EnsureTagFail
    \/ EnsureDone
    \/ GenerateListOK
    \/ GenerateListFail
    \/ GenerateRules
    \/ ReconcileFetchOK
    \/ ReconcileFetchFail
    \/ ComputeDiff
    \/ DeleteRuleOK
    \/ DeleteRuleFail
    \/ DeletesDone
    \/ CreateRuleOK
    \/ CreateRuleFail
    \/ CreatesDone
    \/ ReturnStatus
    \/ GroupDone
    \/ SetStatus
    \/ Switch

RaceSpec == RaceInit /\ [][RaceNext]_vars

---------------------------------------------------------------------------
(* GetSecurityGroups, lines 286-319: the ids of the groups a list of filters
   selects.  i is the index of the loop of line 288. *)

ErrNotFound == "security group not found"

\* infrav1.SecurityGroupFilter: the fields the lookup reads
Filter(id, name, projectID) == [ID |-> id, Name |-> name, ProjectID |-> projectID]

\* sg.ToListOpt(): the filter as list options
ToListOpt(sg) == ListOpts(sg.Name, sg.ProjectID)

\* mutant: the project of the filter is taken as it is
listOptsOf_NoDefault(sg) == ToListOpt(sg)

\* lines 298-301: the list options of a filter, the scope's project when the
\* filter names none
listOptsOf(sg) ==
    LET listOpts == ToListOpt(sg) IN
    IF listOpts.ProjectID = ""
    THEN [listOpts EXCEPT !.ProjectID = ProjectID]
    ELSE listOpts

\* mutant: nothing is a duplicate
isDuplicate_Never(list, name) == name \notin {name}

\* isDuplicate, lines 556-566
isDuplicate(list, name) ==
    IF Len(list) = 0
    THEN FALSE
    ELSE \E k \in 1..Len(list) : list[k] = name

\* lines 311-316: the ids of the listed groups not yet in the list are appended
RECURSIVE AppendListed(_, _)
AppendListed(ids, SGList) ==
    IF SGList = <<>>
    THEN ids
    ELSE AppendListed(IF isDuplicate(ids, Head(SGList).ID)
                      THEN ids
                      ELSE Append(ids, Head(SGList).ID),
                      Tail(SGList))

\* what no step of GetSecurityGroups touches
keptByGet == <<provVars, cfg, clusterStatus, flowVars, desired, observed, rulesToDelete,
               rulesToCreate, reconciledRules, result, pass, peer, switches, prevOK,
               securityGroupParams>>

\* lines 288-296: a filter with an id; the id is taken as it is, without a call
GetExplicitID ==
    /\ pc = "getFilter"
    /\ i <= Len(securityGroupParams)
    /\ LET sg == securityGroupParams[i] IN
        /\ sg.ID # ""
        /\ sgIDs' = IF isDuplicate(sgIDs, sg.ID) THEN sgIDs ELSE Append(sgIDs, sg.ID)
    /\ UNCHANGED <<pc, retErr, failBudget, calls, lists, keptByGet>>
    /\ i' = i + 1

\* lines 298-317: a filter without id; the groups it selects are listed, none
\* being an error
GetListOK ==
    /\ pc = "getFilter"
    /\ i <= Len(securityGroupParams)
    /\ LET sg == securityGroupParams[i]
           listOpts == listOptsOf(sg)
           SGList == ListSecGroup(secGroups, listOpts)
       IN  /\ sg.ID = ""
           /\ calls' = Append(calls, [op |-> "ListSecGroup", opts |-> listOpts, ok |-> TRUE])
           /\ IF Len(SGList) = 0
              THEN Returns(ErrNotFound) /\ sgIDs' = <<>> /\ i' = i
              ELSE /\ sgIDs' = AppendListed(sgIDs, SGList)
                   /\ i' = i + 1
                   /\ UNCHANGED <<pc, retErr>>
    /\ lists' = lists + 1
    /\ UNCHANGED <<failBudget, keptByGet>>

\* lines 302-305: the list call fails
GetListFail ==
    /\ pc = "getFilter"
    /\ i <= Len(securityGroupParams)
    /\ securityGroupParams[i].ID = ""
    /\ Fails
    /\ calls' = Append(calls, [op |-> "ListSecGroup",
                               opts |-> listOptsOf(securityGroupParams[i]), ok |-> FALSE])
    /\ Returns(ErrList)
    /\ sgIDs' = <<>>
    /\ lists' = lists + 1
    /\ UNCHANGED <<i, keptByGet>>

\* line 318: every filter is done
GetDone ==
    /\ pc = "getFilter"
    /\ i > Len(securityGroupParams)
    /\ Returns(NoErr)
    /\ UNCHANGED <<sgIDs, i, failBudget, calls, lists, keptByGet>>

\* the groups the provider holds when GetSecurityGroups is called: one of
\* the control plane's name in the cluster's project and one in another, two
\* of the worker's name
GetProvider ==
    <<SecGroup(GroupIDs[1], getSecControlPlaneGroupName(ClusterName), <<>>),
      SecGroup(GroupIDs[2], getSecWorkerGroupName(ClusterName), <<>>),
      [SecGroup(GroupIDs[3], getSecControlPlaneGroupName(ClusterName), <<>>)
          EXCEPT !.ProjectID = OtherProjectID],
      SecGroup(GroupIDs[4], getSecWorkerGroupName(ClusterName), <<>>)>>

\* the filters a list is drawn from
FilterUniverse ==
    {Filter(GroupIDs[1], <<>>, ""),
     Filter(OtherGroupID, getSecWorkerGroupName(ClusterName), ""),
     Filter("", getSecControlPlaneGroupName(ClusterName), ""),
     Filter("", getSecWorkerGroupName(ClusterName), ""),
     Filter("", getSecControlPlaneGroupName(ClusterName), OtherProjectID),
     Filter("", getSecBastionGroupName(ClusterName), ""),
     Filter("", <<>>, "")}

GetInit ==
    \E params \in SeqsUpTo(FilterUniverse, MaxFilters) :
        /\ secGroups = GetProvider
        /\ nextRuleID = 1
        /\ nextGroupID = Len(GetProvider) + 1
        /\ cfg = Config(FALSE, TRUE, <<>>, <<>>, <<>>)
        /\ desiredSecGroups = <<>>
        /\ todo = {}
        /\ failBudget = MaxFailures
        /\ pc = "getFilter"
        /\ InitLocals
        /\ peer = NoPeer /\ switches = 0
        /\ securityGroupParams = params
        /\ sgIDs = <<>>

GetNext ==
    \/ GetExplicitID
    \/ GetListOK
    \/ GetListFail
    \/ GetDone

GetSpec == GetInit /\ [][GetNext]_vars

---------------------------------------------------------------------------
(* Vocabulary of the properties *)

\* the provider's group that bears the desired group's name
TargetGroup == CHOOSE g \in {secGroups[k] : k \in 1..Len(secGroups)} : g.Name = desired.Name

\* the eight rule fields of a provider rule or of create options, the id left out
Eight(r) ==
    RuleSpec(r.Description, r.Direction, r.EtherType, r.PortRangeMin, r.PortRangeMax,
             r.Protocol, r.RemoteGroupID, r.RemoteIPPrefix)

\* the eight rule fields of a rule status
EightOfStatus(st) ==
    RuleSpec(st.Description[1], st.Direction, st.EtherType[1], st.PortRangeMin[1],
             st.PortRangeMax[1], st.Protocol[1], st.RemoteGroupID[1], st.RemoteIPPrefix[1])

\* a desired rule with the sentinel replaced by the group's own id
Resolved(d, gid) ==
    RuleSpec(d.Description, d.Direction, d.EtherType, d.PortRangeMin, d.PortRangeMax,
             d.Protocol, IF d.RemoteGroupID = "self" THEN gid ELSE d.RemoteGroupID,
             d.RemoteIPPrefix)

Range(f) == {f[k] : k \in DOMAIN f}

\* the current pass ran reconcileGroupRules to its end without a failed call
PassSucceeded == pc = "done" /\ result.err = NoErr /\ observed.ID # ""

\* the current pass is past the diff of reconcileGroupRules
Diffed == pc \in {"delete", "create", "return"} \/ (pc = "done" /\ observed.ID # "")

\* the rule calls of the invocation, in order
RuleCalls == SelectSeq(calls, LAMBDA c : c.op \in {"DeleteSecGroupRule", "CreateSecGroupRule"})
DeleteCalls == SelectSeq(calls, LAMBDA c : c.op = "DeleteSecGroupRule")
CreateCalls == SelectSeq(calls, LAMBDA c : c.op = "CreateSecGroupRule")

\* observed rule o is matched by some desired rule (4.5 of the specification)
ObservedIsDesired(o) ==
    \E k \in 1..Len(desired.Rules) : Resolved(desired.Rules[k], observed.ID) = EightOfStatus(o)

\* desired rule d is matched by some observed rule
DesiredIsObserved(d) ==
    \E k \in 1..Len(observed.Rules) : Resolved(d, observed.ID) = EightOfStatus(observed.Rules[k])

\* the provider's groups that bear the name of the enabled group k
GroupsOf(k) ==
    {secGroups[g] : g \in {h \in 1..Len(secGroups) :
                              secGroups[h].Name = secGroupNamesOf(cfg)[k]}}

\* the resolution table an invocation would build from the provider now
TableNow ==
    [k \in DOMAIN secGroupNamesOf(cfg) |->
        getSecurityGroupByName(secGroups, secGroupNamesOf(cfg)[k]).status.ID]

\* every enabled group is at the provider, once, with its desired rules
Converged ==
    LET gen == GenerateDesired(cfg, secGroupNamesOf(cfg), TableNow) IN
    /\ gen.err = NoErr
    /\ \A k \in DOMAIN secGroupNamesOf(cfg) :
        /\ Cardinality(GroupsOf(k)) = 1
        /\ \A g \in GroupsOf(k) :
              {Eight(r) : r \in Range(g.Rules)}
                  = {Resolved(d, g.ID) : d \in Range(gen.groups[k].Rules)}

---------------------------------------------------------------------------
(* C1. Convergence: after a pass of reconcileGroupRules in which no provider
   call failed, the rules the provider holds for the group, compared on the
   eight rule fields, are exactly the desired rules with 'self' replaced by
   the group's own id. *)
C1_Convergence ==
    PassSucceeded =>
        {Eight(r) : r \in Range(TargetGroup.Rules)}
          = {Resolved(d, TargetGroup.ID) : d \in Range(desired.Rules)}

\* a first pass that deleted a rule, created a rule for a 'self' rule and
\* carried an observed rule through
C1_Witness ==
    /\ PassSucceeded /\ pass = 1
    /\ Len(DeleteCalls) > 0
    /\ \E k \in 1..Len(CreateCalls) : CreateCalls[k].rule.RemoteGroupID = "self"
    /\ Len(result.status.Rules) > Len(CreateCalls)

(* C2. Idempotence: a pass that follows a successful pass with the same
   desired spec, on the observed state fetched again, plans and issues no
   CreateSecGroupRule and no DeleteSecGroupRule call. *)
C2_Idempotence ==
    (pass > 1 /\ prevOK) =>
        /\ RuleCalls = <<>>
        /\ rulesToDelete = <<>>
        /\ rulesToCreate = <<>>

\* the second pass is over, after a first pass that created a rule for 'self'
C2_Witness ==
    /\ pass = 2 /\ prevOK /\ PassSucceeded
    /\ \E k \in 1..Len(desired.Rules) : desired.Rules[k].RemoteGroupID = "self"
    /\ \E r \in Range(TargetGroup.Rules) : r.ID > Len(observed.Rules) - 1 /\ r.ID = nextRuleID - 1
    /\ Len(desired.Rules) = 2

(* C3. Ordering: in a pass no DeleteSecGroupRule call follows a
   CreateSecGroupRule call. *)
C3_DeletesBeforeCreates ==
    \A a, b \in 1..Len(calls) :
        (a < b /\ calls[a].op = "CreateSecGroupRule") => calls[b].op # "DeleteSecGroupRule"

\* a pass that issued a delete and then a create
C3_Witness ==
    \E a, b \in 1..Len(calls) :
        a < b /\ calls[a].op = "DeleteSecGroupRule" /\ calls[b].op = "CreateSecGroupRule"

(* C4. Exact call set: in a pass without provider failure the delete calls
   are one per observed rule that no desired rule matches, with that rule's
   id, and the create calls are one per desired rule that no observed rule
   matches, with that rule's fields ('self' resolved); there is no other
   create or delete call. *)
C4_ExactCalls ==
    PassSucceeded =>
        LET del == SelectSeq(observed.Rules, LAMBDA o : ~ObservedIsDesired(o))
            cre == SelectSeq(desired.Rules, LAMBDA d : ~DesiredIsObserved(d))
        IN  /\ Len(RuleCalls) = Len(del) + Len(cre)
            /\ \A k \in 1..Len(calls) : calls[k].ok
            /\ Len(DeleteCalls) = Len(del)
            /\ \A k \in 1..Len(del) : DeleteCalls[k].id = del[k].ID
            /\ Len(CreateCalls) = Len(cre)
            /\ \A k \in 1..Len(cre) :
                  /\ Eight(CreateCalls[k].opts) = Resolved(cre[k], observed.ID)
                  /\ CreateCalls[k].opts.SecGroupID = observed.ID

\* desired [A, B] against observed [A, C]: one delete of C, one create of B
C4_Witness ==
    /\ PassSucceeded /\ pass = 1
    /\ Len(desired.Rules) = 2 /\ Len(observed.Rules) = 2
    /\ DesiredIsObserved(desired.Rules[1]) /\ ObservedIsDesired(observed.Rules[1])
    /\ Len(RuleCalls) = 2
    /\ RuleCalls[1].op = "DeleteSecGroupRule" /\ RuleCalls[1].id = observed.Rules[2].ID
    /\ RuleCalls[2].op = "CreateSecGroupRule"
    /\ Eight(RuleCalls[2].opts) = Resolved(desired.Rules[2], observed.ID)

(* C5. Carry-through: in a pass without provider failure, an observed rule
   that some desired rule matches is not deleted, is not created again, and
   is in the returned status with its id and its fields. *)
C5_CarryThrough ==
    PassSucceeded =>
        \A o \in Range(observed.Rules) :
            ObservedIsDesired(o) =>
                /\ \A k \in 1..Len(DeleteCalls) : DeleteCalls[k].id # o.ID
                /\ \A k \in 1..Len(CreateCalls) : Eight(CreateCalls[k].opts) # EightOfStatus(o)
                /\ o \in Range(result.status.Rules)

(* C6. Self-reference on create: a CreateSecGroupRule call issued for a
   desired rule whose remoteGroupID is 'self' carries the id of the group the
   rule is created in, which is the group being reconciled; never the
   sentinel, never another group's id. *)
C6_SelfOnCreate ==
    \A k \in 1..Len(CreateCalls) :
        LET c == CreateCalls[k] IN
        /\ c.opts.RemoteGroupID # "self"
        /\ c.rule.RemoteGroupID = "self" =>
              /\ c.opts.RemoteGroupID = c.opts.SecGroupID
              /\ c.opts.SecGroupID = TargetGroup.ID

\* a create call for a 'self' rule in the worker group
C6_Witness ==
    \E k \in 1..Len(CreateCalls) :
        /\ CreateCalls[k].rule.RemoteGroupID = "self"
        /\ CreateCalls[k].ok
        /\ TargetGroup.ID = "sg-2"

(* C7. Self-reference on match: a desired rule with remoteGroupID 'self' and
   an observed rule whose remoteGroupID is the observed group's id, equal in
   the other seven fields, are the same rule for both diffs: the observed
   rule is not to be deleted and the desired rule is not to be created. *)
C7_SelfOnMatch ==
    Diffed =>
        \A d \in Range(desired.Rules), o \in Range(observed.Rules) :
            ( /\ d.RemoteGroupID = "self"
              /\ o.RemoteGroupID = <<observed.ID>>
              /\ [d EXCEPT !.RemoteGroupID = ""] = [EightOfStatus(o) EXCEPT !.RemoteGroupID = ""] )
            => /\ o.ID \notin Range(rulesToDelete)
               /\ d \notin Range(rulesToCreate)

\* such a pair, in a pass that has other rules to delete and to create
C7_Witness ==
    /\ pc = "delete"
    /\ \E d \in Range(desired.Rules), o \in Range(observed.Rules) :
          /\ d.RemoteGroupID = "self"
          /\ Resolved(d, observed.ID) = EightOfStatus(o)
    /\ Len(rulesToDelete) > 0
    /\ Len(rulesToCreate) > 0

(* C8. No rollback: when a DeleteSecGroupRule or CreateSecGroupRule call
   fails, the pass returns that call's error and the empty status, the
   failed call is the last call of the pass, and the provider holds the
   observed rules less the ones deleted so far, followed by the ones created
   so far. *)
C8_NoRollback ==
    (pc = "done" /\ result.err \in {ErrDeleteRule, ErrCreateRule}) =>
        LET n == Len(calls)
            okDeleted == {calls[k].id : k \in {j \in 1..n : calls[j].op = "DeleteSecGroupRule" /\ calls[j].ok}}
            kept == SelectSeq(observed.Rules, LAMBDA o : o.ID \notin okDeleted)
            created == SelectSeq(calls, LAMBDA c : c.op = "CreateSecGroupRule" /\ c.ok)
        IN  /\ n > 0
            /\ ~calls[n].ok
            /\ \A k \in 1..(n - 1) : calls[k].ok
            /\ result.err = (IF calls[n].op = "DeleteSecGroupRule" THEN ErrDeleteRule ELSE ErrCreateRule)
            /\ result.status = EmptyStatus
            /\ Len(TargetGroup.Rules) = Len(kept) + Len(created)
            /\ \A k \in 1..Len(kept) :
                  /\ TargetGroup.Rules[k].ID = kept[k].ID
                  /\ Eight(TargetGroup.Rules[k]) = EightOfStatus(kept[k])
            /\ \A k \in 1..Len(created) :
                  Eight(TargetGroup.Rules[Len(kept) + k]) = Eight(created[k].opts)

\* a pass that deleted a rule, created a rule and then failed on the next create
C8_Witness ==
    /\ pc = "done" /\ result.err = ErrCreateRule
    /\ Len(RuleCalls) = 3
    /\ RuleCalls[1].op = "DeleteSecGroupRule" /\ RuleCalls[1].ok
    /\ RuleCalls[2].op = "CreateSecGroupRule" /\ RuleCalls[2].ok

(* C9. Self-healing: when ReconcileSecurityGroups is invoked again and again
   with the same configuration, nobody else changes the provider, and only
   finitely many provider calls fail, then from some point on the rules the
   provider holds for every enabled group are the group's desired rules,
   'self' read as the group's id, and no invocation issues a
   CreateSecGroupRule or DeleteSecGroupRule call any more; whatever a failed
   invocation left at the provider. *)
C9_SelfHealing == <>[](Converged /\ RuleCalls = <<>>)

\* converged after a failed call, the last invocation having had nothing to do
C9_Witness ==
    /\ Converged
    /\ failBudget < MaxFailures
    /\ pc = "returned" /\ retErr = NoErr
    /\ RuleCalls = <<>>
    /\ clusterStatus.ControlPlaneSecurityGroup # <<>>
    /\ Len(Deref(clusterStatus.ControlPlaneSecurityGroup).Rules) > 1

(* C10. Empty convergence: a pass without provider failure that ends with no
   reconciled rule, which is when the desired list is empty, returns the
   empty status (no id, no name, no rules) although the group exists at the
   provider; a returned status with an id has at least one rule. *)
C10_EmptyConvergence ==
    PassSucceeded =>
        /\ (Len(reconciledRules) = 0) = (Len(desired.Rules) = 0)
        /\ Len(reconciledRules) = 0 =>
              /\ result.status.ID = "" /\ result.status.Name = <<>> /\ result.status.Rules = <<>>
              /\ \E k \in 1..Len(secGroups) : secGroups[k].Name = desired.Name
        /\ result.status.ID # "" => Len(result.status.Rules) > 0

\* an empty desired list against two observed rules: both deleted, empty status
C10_Witness ==
    /\ PassSucceeded /\ pass = 1
    /\ desired.Rules = <<>>
    /\ Len(DeleteCalls) = 2
    /\ TargetGroup.Rules = <<>>
    /\ result.status = EmptyStatus


---------------------------------------------------------------------------
(* Vocabulary of the properties on configurations *)

\* the all-nodes rule templates of the configuration
Templates == Range(cfg.AllNodesSecurityGroupRules)

\* the invocation has returned
Returned == pc = "returned"

\* no provider call has failed so far
NoCallFailed == failBudget = MaxFailures

\* no provider call was issued by the invocation: no list, no other call
NoProviderCall == lists = 0 /\ calls = <<>>

(* C11. Mutual exclusion: when an all-nodes rule template of the configuration
   sets both a direct remoteGroupID and a non-empty remoteManagedGroups list,
   ReconcileSecurityGroups returns an error and has issued no provider call
   (list, create group, tag, create rule, delete rule) before it; stated for
   the invocations in which no provider call fails. *)
C11_MutualExclusion ==
    (Returned /\ NoCallFailed /\ \E t \in Templates : t.RemoteGroupID # <<>> /\ Len(t.RemoteManagedGroups) > 0)
        => (retErr # NoErr /\ NoProviderCall)

(* C12. Unresolved role: when the bastion is disabled and an all-nodes rule
   template lists the role 'bastion' in remoteManagedGroups, the generation of
   the desired state fails with a configuration error and the invocation
   has issued no provider call; stated for the invocations in which no
   provider call fails. *)
C12_UnresolvedRole ==
    (Returned /\ NoCallFailed /\ ~cfg.BastionEnabled
              /\ \E t \in Templates : bastionSuffix \in Range(t.RemoteManagedGroups))
        => (retErr \in {ErrRemoteRequired, ErrRemoteInvalid, ErrRemoteBoth} /\ NoProviderCall)

(* C13. Direct reference: an all-nodes rule template that sets a direct
   remoteGroupID and no remoteManagedGroups is accepted by getAllNodesRules
   and expands to exactly one rule, which carries that remoteGroupID: the
   invocation whose only template is such a one and in which no provider call
   fails returns no error, the desired rules holding that rule. *)
C13_DirectReference ==
    LET templates == cfg.AllNodesSecurityGroupRules IN
    (/\ Returned /\ NoCallFailed
     /\ Len(templates) = 1
     /\ templates[1].RemoteGroupID # <<>>
     /\ Len(templates[1].RemoteManagedGroups) = 0)
        => /\ retErr = NoErr
           /\ getAllNodesRules(remoteManagedGroups, templates)
                 = [rules |-> <<ResolvedTemplate(templates[1])>>, err |-> NoErr]
           /\ \E k \in 1..Len(desiredSecGroups[controlPlaneSuffix].Rules) :
                 desiredSecGroups[controlPlaneSuffix].Rules[k].RemoteGroupID
                    = Deref(templates[1].RemoteGroupID)

(* C14. Role expansion: an all-nodes rule template with N role references,
   all in the resolution table, and no direct remoteGroupID expands into
   exactly N rules, in the order of the references, each equal to the
   template in every field (an absent one being the zero value) except
   remoteGroupID, which is the table's id of the role: when the generation
   has succeeded, the desired rules of the control plane and of the worker
   group hold, after the rules of their own and before the bastion's SSH
   rule, these rules for every template in turn, and no other rule that
   the configuration without templates would not have. *)
\* the value of an optional field, zero when it is absent
OrZero(p, zero) == IF p = <<>> THEN zero ELSE p[1]

\* the N rules of template t
RoleRules(t) ==
    [j \in 1..Len(t.RemoteManagedGroups) |->
        RuleSpec(OrZero(t.Description, ""), t.Direction, OrZero(t.EtherType, ""),
                 OrZero(t.PortRangeMin, 0), OrZero(t.PortRangeMax, 0),
                 OrZero(t.Protocol, ""),
                 TableNow[t.RemoteManagedGroups[j]],
                 OrZero(t.RemoteIPPrefix, ""))]

RECURSIVE RoleRulesFrom(_)
RoleRulesFrom(k) ==
    IF k > Len(cfg.AllNodesSecurityGroupRules)
    THEN <<>>
    ELSE RoleRules(cfg.AllNodesSecurityGroupRules[k]) \o RoleRulesFrom(k + 1)

\* the desired rules of group k bar the bastion's SSH rule, which comes last
BeforeSSH(k) ==
    LET rules == desiredSecGroups[k].Rules
    IN  IF cfg.BastionEnabled THEN SubSeq(rules, 1, Len(rules) - 1) ELSE rules

\* sequence tl is the end of sequence sq
EndsWith(sq, tl) ==
    Len(tl) <= Len(sq) /\ SubSeq(sq, Len(sq) - Len(tl) + 1, Len(sq)) = tl

\* the desired groups of the configuration without its templates
WithoutTemplates ==
    GenerateDesired([cfg EXCEPT !.AllNodesSecurityGroupRules = <<>>],
                    secGroupNamesOf(cfg), TableNow).groups

C14_RoleExpansion ==
    (pc = "reconcile" /\ desiredSecGroups # <<>>) =>
        \A k \in {controlPlaneSuffix, workerSuffix} :
            /\ EndsWith(BeforeSSH(k), RoleRulesFrom(1))
            /\ Len(desiredSecGroups[k].Rules)
                  = Len(WithoutTemplates[k].Rules) + Len(RoleRulesFrom(1))

\* a template of three roles and one of one role, with the direction only, expanded
C14_Witness ==
    /\ desiredSecGroups # <<>>
    /\ Len(cfg.AllNodesSecurityGroupRules) = 2
    /\ Len(cfg.AllNodesSecurityGroupRules[1].RemoteManagedGroups) = 3
    /\ Len(RoleRulesFrom(1)) = 4
    /\ RoleRulesFrom(1)[4].Protocol = "" /\ RoleRulesFrom(1)[4].RemoteIPPrefix = "10.0.0.0/8"
    /\ Cardinality({RoleRulesFrom(1)[j].RemoteGroupID : j \in 1..3}) = 3

(* C15. Fetch cardinality: getSecurityGroupByName returns, when the provider
   lists no group for the name, the empty status (id "") and no error; when
   it lists exactly one, that group's id, name and all its rules, converted
   one to one in order, and no error; when it lists more than one, an error
   and the empty status.  So for every name of the cluster on every provider
   state, and for the lookup that starts reconcileGroupRules. *)
\* the groups the provider lists for the name, in its order
Listed(name) == SelectSeq(secGroups, LAMBDA g : g.Name = name)

\* status st is group g, its rules converted one to one in order
StatusOf(st, g) ==
    /\ st.ID = g.ID /\ st.Name = g.Name
    /\ Len(st.Rules) = Len(g.Rules)
    /\ \A j \in 1..Len(g.Rules) :
          /\ st.Rules[j].ID = g.Rules[j].ID
          /\ EightOfStatus(st.Rules[j]) = Eight(g.Rules[j])

C15_FetchCardinality ==
    /\ \A k \in DOMAIN secGroupNamesOf(cfg) :
          LET name == secGroupNamesOf(cfg)[k]
              got == getSecurityGroupByName(secGroups, name)
          IN  /\ Len(Listed(name)) = 0 =>
                    /\ got.err = NoErr
                    /\ got.status.ID = "" /\ got.status.Name = <<>> /\ got.status.Rules = <<>>
              /\ Len(Listed(name)) = 1 =>
                    got.err = NoErr /\ StatusOf(got.status, Listed(name)[1])
              /\ Len(Listed(name)) > 1 =>
                    /\ got.err # NoErr
                    /\ got.status.ID = "" /\ got.status.Name = <<>> /\ got.status.Rules = <<>>
    /\ pc = "diff" =>
          Len(Listed(desired.Name)) = 1 /\ StatusOf(observed, Listed(desired.Name)[1])
    /\ (Returned /\ NoCallFailed /\ retErr # NoErr /\ Templates = {}) =>
          \E k \in DOMAIN secGroupNamesOf(cfg) : Len(Listed(secGroupNamesOf(cfg)[k])) > 1

\* one name listed twice and rejected, another listed once, with its rules
C15_Witness ==
    /\ Returned /\ NoCallFailed /\ retErr = ErrAmbiguous
    /\ Len(Listed(getSecControlPlaneGroupName(ClusterName))) = 2
    /\ Len(Listed(getSecWorkerGroupName(ClusterName))) = 1
    /\ Len(Listed(getSecBastionGroupName(ClusterName))) = 0
    /\ lists > 1

(* C16. Project scoping of the lookup: the list filter of
   getSecurityGroupByName restricts the query to the owning project as well
   as to the name, so that a group of that name in another project is never
   returned and never makes the name ambiguous: the group reconcileGroupRules
   is started on is one of the cluster's project, and an invocation ends
   with the ambiguity error only when the project has two groups of a name. *)
\* the groups of the cluster's project the provider holds for the name
Owned(name) == SelectSeq(Listed(name), LAMBDA g : g.ProjectID = ProjectID)

C16_ProjectScoping ==
    /\ pc = "diff" => \E j \in 1..Len(Owned(desired.Name)) : Owned(desired.Name)[j].ID = observed.ID
    /\ (Returned /\ retErr = ErrAmbiguous) =>
          \E k \in DOMAIN secGroupNamesOf(cfg) : Len(Owned(secGroupNamesOf(cfg)[k])) > 1

(* C17. EnsureGroup idempotence: createSecurityGroupIfNotExists called for a
   name under which exactly one group exists issues no CreateSecGroup and no
   ReplaceAllAttributesTags call and returns success; called twice in a row
   for an absent name it creates exactly one group.  As a property of every
   step: the lookup that finds one group ends the call with nothing changed
   but the loop going on; a CreateSecGroup call is issued only for a name
   without a group, after which the name has one group; a
   ReplaceAllAttributesTags call only follows the CreateSecGroup call of the
   same group. *)
\* the step issues a provider call of kind op, logged last
Issues(op) == Len(calls') = Len(calls) + 1 /\ calls'[Len(calls')].op = op

\* the step is the successful lookup of createSecurityGroupIfNotExists
EnsureLooksUp == pc = "ensure" /\ lists' = lists + 1 /\ failBudget' = failBudget

EnsureStep ==
    /\ (EnsureLooksUp /\ Len(Listed(secGroupNamesOf(cfg)[key'])) = 1) =>
          /\ calls' = calls /\ secGroups' = secGroups
          /\ retErr' = retErr /\ pc' = "ensure" /\ todo' = todo \ {key'}
    /\ \A k \in DOMAIN secGroupNamesOf(cfg) :
          LET name == secGroupNamesOf(cfg)[k] IN
          /\ (Issues("CreateSecGroup") /\ calls'[Len(calls')].name = name)
                => Len(Listed(name)) = 0
          /\ Len(Listed(name))' # Len(Listed(name))
                => Len(Listed(name)) = 0 /\ Len(Listed(name))' = 1
    /\ Issues("ReplaceAllAttributesTags") =>
          /\ calls # <<>>
          /\ calls[Len(calls)].op = "CreateSecGroup" /\ calls[Len(calls)].ok
          /\ calls[Len(calls)].id = calls'[Len(calls')].id

C17_EnsureIdempotence == [][EnsureStep]_vars

\* an invocation has found, without a call but the lookups, the two groups an
\* earlier invocation created and tagged
C17_Witness ==
    /\ pc = "generate" /\ calls = <<>> /\ lists >= 2
    /\ Len(secGroups) = 2
    /\ cfg.Tags # <<>>
    /\ \A k \in 1..Len(secGroups) : secGroups[k].Tags = cfg.Tags

(* C18. EnsureGroup on an absent name: createSecurityGroupIfNotExists issues
   exactly one CreateSecGroup call, with that name, and then one
   ReplaceAllAttributesTags call, for the id of the new group, if and only if
   the tag list of the cluster is not empty; with an empty tag list it issues
   no tag call.  As a property of every step: the lookup that finds no group
   is followed by the CreateSecGroup call with the name and by nothing else;
   when that call succeeds, the tag call for the new id follows if there are
   tags, and else the call is over; after the tag call the call is over; no
   CreateSecGroup or ReplaceAllAttributesTags call is issued anywhere else. *)
\* the provider call the step issues
Issued == calls'[Len(calls')]

\* createSecurityGroupIfNotExists has returned success and the loop goes on
EnsureOver == pc' = "ensure" /\ todo' = todo \ {key} /\ retErr' = retErr

\* the group the CreateSecGroup call logged last has created
Created == CHOOSE g \in Range(secGroups) : g.ID = calls[Len(calls)].id

EnsureAbsentStep ==
    /\ (EnsureLooksUp /\ Len(Listed(secGroupNamesOf(cfg)[key'])) = 0) => pc' = "ensureCreate"
    /\ pc = "ensureCreate" =>
          /\ Issues("CreateSecGroup")
          /\ Issued.name = secGroupNamesOf(cfg)[key]
          /\ IF Issued.ok
             THEN /\ Len(secGroups') = Len(secGroups) + 1
                  /\ secGroups'[Len(secGroups')].ID = Issued.id
                  /\ secGroups'[Len(secGroups')].Name = Issued.name
                  /\ IF cfg.Tags # <<>> THEN pc' = "ensureTag" ELSE EnsureOver
             ELSE secGroups' = secGroups /\ pc' = "returned" /\ retErr' # NoErr
    /\ pc = "ensureTag" =>
          /\ Issues("ReplaceAllAttributesTags")
          /\ Issued.id = Created.ID
          /\ Created.Name = secGroupNamesOf(cfg)[key]
          /\ IF Issued.ok
             THEN EnsureOver /\ \E g \in Range(secGroups') : g.ID = Issued.id /\ g.Tags = cfg.Tags
             ELSE secGroups' = secGroups /\ pc' = "returned" /\ retErr' # NoErr
    /\ Issues("CreateSecGroup") => pc = "ensureCreate"
    /\ Issues("ReplaceAllAttributesTags") => pc = "ensureTag" /\ cfg.Tags # <<>>

C18_EnsureAbsent == [][EnsureAbsentStep]_vars

\* two groups created, each tagged right after; the ensure loop is over
C18_Witness ==
    /\ pc = "ensure" /\ todo = {}
    /\ Len(calls) = 4
    /\ \A j \in {1, 3} :
          /\ calls[j].op = "CreateSecGroup" /\ calls[j].ok
          /\ calls[j + 1].op = "ReplaceAllAttributesTags" /\ calls[j + 1].ok
          /\ calls[j + 1].id = calls[j].id
    /\ calls[1].name # calls[3].name

(* C19. DeleteGroup idempotence: deleteSecurityGroup for a name without a
   group at the provider returns success and issues no DeleteSecGroup call;
   for a name with exactly one group it issues exactly one DeleteSecGroup
   call, with the id of that group; so a DeleteSecurityGroups that follows a
   successful one issues no delete call and succeeds.  As a property of every
   step of repeated DeleteSecurityGroups invocations. *)
\* the step is the successful lookup of deleteSecurityGroup
DeleteLooksUp == pc = "deleteLookup" /\ lists' = lists + 1 /\ failBudget' = failBudget

DeleteStep ==
    LET name == deleteNamesOf(cfg)[i] IN
    /\ (DeleteLooksUp /\ Len(Listed(name)) = 0) =>
          /\ calls' = calls /\ secGroups' = secGroups
          /\ pc' = "deleteLookup" /\ i' = i + 1 /\ retErr' = retErr
    /\ (DeleteLooksUp /\ Len(Listed(name)) = 1) =>
          pc' = "deleteCall" /\ calls' = calls /\ observed'.ID = Listed(name)[1].ID
    /\ pc = "deleteCall" =>
          /\ Issues("DeleteSecGroup")
          /\ Len(Listed(name)) = 1 /\ Issued.id = Listed(name)[1].ID
          /\ IF Issued.ok
             THEN /\ secGroups' = SelectSeq(secGroups, LAMBDA g : g.Name # name)
                  /\ pc' = "deleteLookup" /\ i' = i + 1 /\ retErr' = retErr
             ELSE secGroups' = secGroups /\ pc' = "returned" /\ retErr' # NoErr
    /\ Issues("DeleteSecGroup") => pc = "deleteCall"
    /\ prevOK' =>
          /\ calls' = <<>>
          /\ \A k \in 1..Len(deleteNamesOf(cfg)) : Len(Listed(deleteNamesOf(cfg)[k])') = 0
          /\ (pc' = "returned" /\ failBudget' = failBudget) => retErr' = NoErr

C19_DeleteIdempotence == [][DeleteStep]_vars

\* a DeleteSecurityGroups that deleted three groups is followed by one that
\* has looked every name up, called nothing and succeeded
C19_Witness ==
    /\ Returned /\ prevOK /\ retErr = NoErr
    /\ cfg.BastionEnabled
    /\ lists = 3 /\ calls = <<>>
    /\ secGroups = <<>>
    /\ nextGroupID = 4

(* C20. Groups before rules: in every execution of ReconcileSecurityGroups
   the ensure step (lookup, creation if absent) is over for every enabled
   role before the generation of the desired state runs and before the first
   CreateSecGroupRule or DeleteSecGroupRule call of any group: from the
   generation on, and wherever a rule call has been issued, every enabled
   role has been looked up and has its group at the provider, and no
   CreateSecGroup or ReplaceAllAttributesTags call follows a rule call. *)
\* the invocation is at or past generateDesiredSecGroups
PastEnsure ==
    pc \in {"generate", "reconcile", "diff", "delete", "create", "return", "done"}

C20_GroupsBeforeRules ==
    /\ (PastEnsure \/ RuleCalls # <<>>) =>
          /\ lists >= Cardinality(DOMAIN secGroupNamesOf(cfg))
          /\ \A k \in DOMAIN secGroupNamesOf(cfg) : Len(Listed(secGroupNamesOf(cfg)[k])) = 1
    /\ \A j \in 1..Len(calls) :
          calls[j].op \in {"CreateSecGroup", "ReplaceAllAttributesTags"} =>
              \A h \in 1..j : calls[h].op \in {"CreateSecGroup", "ReplaceAllAttributesTags"}
    /\ (pc \in {"ensure", "ensureCreate", "ensureTag"}) =>
          RuleCalls = <<>> /\ desiredSecGroups = <<>>

\* a new cluster: two groups created, then the first rule, in one of them
C20_Witness ==
    /\ pc = "create"
    /\ Len(calls) = 3
    /\ calls[1].op = "CreateSecGroup" /\ calls[2].op = "CreateSecGroup"
    /\ calls[3].op = "CreateSecGroupRule" /\ calls[3].ok
    /\ calls[3].opts.SecGroupID \in {calls[1].id, calls[2].id}

(* C21. Resolution table completeness: in an invocation with exclusive
   access, whenever the all-nodes rule templates are expanded, which is when
   the lookups of generateDesiredSecGroups are over, and from then on, the
   resolution table has an entry for every enabled role (control plane,
   worker, and bastion exactly when the bastion is enabled) and each entry is
   the non-empty id of the one group the provider holds under the role's
   name. *)
\* the lookups of generateDesiredSecGroups are over: getAllNodesRules runs or has run
LookupsOver ==
    \/ pc = "generate" /\ todo = {}
    \/ pc \in {"reconcile", "diff", "delete", "create", "return", "done"}

\* the roles the configuration enables
EnabledRoles ==
    {controlPlaneSuffix, workerSuffix} \cup (IF cfg.BastionEnabled THEN {bastionSuffix} ELSE {})

CallFails == failBudget' < failBudget

\* the error of the provider call the step issues
ErrOfCall ==
    IF lists' = lists + 1 THEN ErrList
    ELSE CASE Issued.op = "CreateSecGroup" -> ErrCreateGroup
           [] Issued.op = "ReplaceAllAttributesTags" -> ErrTags
           [] Issued.op = "DeleteSecGroupRule" -> ErrDeleteRule
           [] Issued.op = "CreateSecGroupRule" -> ErrCreateRule

FailFastStep ==
    /\ CallFails =>
          /\ pc \notin {"returned", "done"}
          /\ \/ lists' = lists + 1 /\ calls' = calls
             \/ lists' = lists /\ Len(calls') = Len(calls) + 1 /\ ~Issued.ok
          /\ secGroups' = secGroups
          /\ IF pc \in {"delete", "create"}
             THEN pc' = "done" /\ result'.err = ErrOfCall /\ result'.err # NoErr
             ELSE pc' = "returned" /\ retErr' = ErrOfCall
    /\ (pc = "done" /\ result.err # NoErr) =>
          /\ pc' = "returned" /\ retErr' = result.err
          /\ calls' = calls /\ lists' = lists /\ secGroups' = secGroups
    /\ pc = "returned" => pc' = "entry" /\ calls' = <<>> /\ lists' = 0
    /\ \A j \in 1..Len(calls') : ~calls'[j].ok => (j = Len(calls') /\ pc' \in {"done", "returned"})
    /\ (Len(calls') = Len(calls) + 1 /\ ~Issued.ok) => CallFails

C22_FailFast == [][FailFastStep]_vars

\* an invocation that created a group and rules has returned the error of its
\* last call, a CreateSecGroupRule call that failed
C22_Witness ==
    /\ Returned /\ retErr = ErrCreateRule
    /\ Len(calls) >= 3
    /\ calls[1].op = "CreateSecGroup"
    /\ calls[Len(calls)].op = "CreateSecGroupRule" /\ ~calls[Len(calls)].ok
    /\ calls[Len(calls) - 1].op = "CreateSecGroupRule" /\ calls[Len(calls) - 1].ok

(* C23. No partial desired state downstream: when the generation of the
   desired state fails (a template with both references, a template without a
   role or with a role the table does not have, a failed lookup),
   ReconcileSecurityGroups issues no CreateSecGroupRule and no
   DeleteSecGroupRule call in that invocation, for no group, not even for
   the rules of the templates before the rejected one: an invocation that
   has issued a rule call holds the desired groups of a generation that
   succeeded as a whole, and an invocation without desired groups has issued
   no rule call. *)
\* the errors with which getAllNodesRules rejects a template
ConfigErrors == {ErrRemoteBoth, ErrRemoteRequired, ErrRemoteInvalid}

\* what generateDesiredSecGroups returns for the table of the invocation
GenerationNow == GenerateDesired(cfg, secGroupNamesOf(cfg), remoteManagedGroups)

C23_NoPartialState ==
    /\ desiredSecGroups = <<>> => RuleCalls = <<>>
    /\ RuleCalls # <<>> =>
          GenerationNow.err = NoErr /\ desiredSecGroups = GenerationNow.groups
    /\ (Returned /\ retErr \in ConfigErrors) =>
          RuleCalls = <<>> /\ desiredSecGroups = <<>>

\* the second of two templates is rejected, the first being valid: no rule
\* call, and the groups, which are there, have no rule
C23_Witness ==
    /\ Returned /\ retErr = ErrRemoteBoth /\ NoCallFailed
    /\ Len(cfg.AllNodesSecurityGroupRules) = 2
    /\ validateRemoteManagedGroups(remoteManagedGroups,
                                   cfg.AllNodesSecurityGroupRules[1].RemoteManagedGroups) = NoErr
    /\ cfg.AllNodesSecurityGroupRules[1].RemoteGroupID = <<>>
    /\ calls = <<>>
    /\ Len(secGroups) = 2 /\ CountRules(secGroups) = 0

(* C24. One GroupSpec per enabled role: a generateDesiredSecGroups that
   succeeds returns a GroupSpec, under the role's group name, for the control
   plane and for the worker always and for the bastion if and only if the
   bastion is enabled; exactly when the bastion is enabled the SSH rule from
   the bastion's group is appended to the control-plane list and to the
   worker list, which are otherwise the lists of the configuration without
   bastion, and the bastion's GroupSpec is the fixed SSH ingress rule (tcp
   22, IPv4, from anywhere) followed by the baseline rules. *)
\* the desired groups of the configuration with the bastion disabled, the table as it is
WithoutBastion ==
    GenerateDesired([cfg EXCEPT !.BastionEnabled = FALSE], secGroupNamesOf(cfg), TableNow).groups

\* rule r lets tcp port 22 in from group id, or from anywhere when id is ""
IsSSHFrom(r, id) ==
    /\ r.Direction = "ingress" /\ r.EtherType = "IPv4" /\ r.Protocol = "tcp"
    /\ r.PortRangeMin = 22 /\ r.PortRangeMax = 22
    /\ r.RemoteGroupID = id /\ r.RemoteIPPrefix = ""

C24_OnePerRole ==
    (pc = "reconcile" /\ desiredSecGroups # <<>>) =>
        /\ DOMAIN desiredSecGroups = EnabledRoles
        /\ \A k \in EnabledRoles : desiredSecGroups[k].Name = secGroupNamesOf(cfg)[k]
        /\ \A k \in {controlPlaneSuffix, workerSuffix} :
              LET rules == desiredSecGroups[k].Rules IN
              IF cfg.BastionEnabled
              THEN /\ Len(rules) = Len(WithoutBastion[k].Rules) + 1
                   /\ SubSeq(rules, 1, Len(rules) - 1) = WithoutBastion[k].Rules
                   /\ IsSSHFrom(rules[Len(rules)], TableNow[bastionSuffix])
                   /\ TableNow[bastionSuffix] # ""
              ELSE /\ rules = WithoutBastion[k].Rules
                   /\ \A j \in 1..Len(rules) : rules[j].PortRangeMin # 22
        /\ cfg.BastionEnabled =>
              LET rules == desiredSecGroups[bastionSuffix].Rules IN
              /\ Len(rules) = 1 + Len(defaultRules)
              /\ IsSSHFrom(rules[1], "")
              /\ SubSeq(rules, 2, Len(rules)) = defaultRules

\* three GroupSpecs for a cluster with a bastion and all-nodes templates
C24_Witness ==
    /\ pc = "reconcile" /\ cfg.BastionEnabled
    /\ Cardinality(DOMAIN desiredSecGroups) = 3
    /\ Templates # {}
    /\ todo = DOMAIN desiredSecGroups

(* C25. All-nodes duplication: every rule the all-nodes templates expand to
   is in the desired list of the control plane and in the desired list of
   the worker, with the same fields and in the same order, and in no desired
   list of the bastion: the part of either list between the role's own rules
   and the bastion's SSH rule is the same sequence, of one rule per role of
   every template, and none of its rules is a rule of the bastion. *)
\* the rules of desired group k after the role's own rules and before the
\* bastion's SSH rule
AllNodesPart(k) ==
    LET own == Len(WithoutTemplates[k].Rules) - (IF cfg.BastionEnabled THEN 1 ELSE 0)
    IN  SubSeq(desiredSecGroups[k].Rules, own + 1, Len(BeforeSSH(k)))

C25_AllNodesDuplication ==
    (pc = "reconcile" /\ desiredSecGroups # <<>>) =>
        /\ AllNodesPart(controlPlaneSuffix) = AllNodesPart(workerSuffix)
        /\ Len(AllNodesPart(workerSuffix)) = Len(RoleRulesFrom(1))
        /\ cfg.BastionEnabled =>
              \A j \in 1..Len(AllNodesPart(workerSuffix)) :
                  AllNodesPart(workerSuffix)[j] \notin Range(desiredSecGroups[bastionSuffix].Rules)

\* four all-nodes rules in both lists of a cluster with a bastion
C25_Witness ==
    /\ pc = "reconcile" /\ desiredSecGroups # <<>>
    /\ cfg.BastionEnabled
    /\ Len(AllNodesPart(workerSuffix)) = 4
    /\ AllNodesPart(controlPlaneSuffix)[4].RemoteIPPrefix = "10.0.0.0/8"
    /\ AllNodesPart(workerSuffix)[1] # AllNodesPart(workerSuffix)[2]

(* C26. Structural equality: Matches(desired, observed) is true exactly when
   description, direction, etherType, protocol, portRangeMin, portRangeMax,
   remoteGroupID and remoteIPPrefix are all equal; the id the provider gave
   the observed rule has no influence, so that two observed rules that differ
   only in the id give the same result against every desired rule.  Stated
   for every desired rule of a pass against every observed rule of the pass,
   against the rule the provider would store for it, and against every rule
   that differs from one of these in the id or in one of the eight fields. *)
\* the status of the provider's rule with id and the fields of rule spec r
StatusFor(id, r) == convertOSSecGroupRuleToConfigSecGroupRule(WireRule(id, r, ""))

\* a value of the kind of v that is not v
Another(v, a, b) == IF v = a THEN b ELSE a

\* the rule statuses that differ from o in exactly one of the eight fields
OneFieldOff(o) ==
    {[o EXCEPT !.Description = Ptr(Another(@[1], "x", "y"))],
     [o EXCEPT !.Direction = Another(@, "ingress", "egress")],
     [o EXCEPT !.EtherType = Ptr(Another(@[1], "IPv4", "IPv6"))],
     [o EXCEPT !.PortRangeMin = Ptr(@[1] + 1)],
     [o EXCEPT !.PortRangeMax = Ptr(@[1] + 1)],
     [o EXCEPT !.Protocol = Ptr(Another(@[1], "tcp", "udp"))],
     [o EXCEPT !.RemoteGroupID = Ptr(Another(@[1], "sg-1", "sg-2"))],
     [o EXCEPT !.RemoteIPPrefix = Ptr(Another(@[1], "0.0.0.0/0", ""))]}

C26_StructuralEquality ==
    /\ \A d \in Range(desired.Rules) :
          /\ Matches(d, StatusFor(0, d))
          /\ \A o \in Range(observed.Rules) \cup {StatusFor(0, d)} :
                /\ Matches(d, o) = (d = EightOfStatus(o))
                /\ \A id \in 0..(MaxObserved + 1) :
                      Matches(d, [o EXCEPT !.ID = id]) = Matches(d, o)
                /\ \A v \in OneFieldOff(o) :
                      /\ Matches(d, v) = (d = EightOfStatus(v))
                      /\ Matches(d, o) => ~Matches(d, v)
    /\ \A o1, o2 \in Range(observed.Rules) :
          EightOfStatus(o1) = EightOfStatus(o2) =>
              \A d \in Range(desired.Rules) : Matches(d, o1) = Matches(d, o2)

\* a desired rule against two observed rules that differ in the id only, and
\* another desired rule that matches neither
C26_Witness ==
    /\ pc = "diff"
    /\ Len(observed.Rules) = 2 /\ Len(desired.Rules) = 2
    /\ observed.Rules[1].ID # observed.Rules[2].ID
    /\ EightOfStatus(observed.Rules[1]) = EightOfStatus(observed.Rules[2])
    /\ Matches(desired.Rules[1], observed.Rules[1])
    /\ Matches(desired.Rules[1], observed.Rules[2])
    /\ ~Matches(desired.Rules[2], observed.Rules[1])

(* C27. Duplicate desired rules: when the desired list holds the same rule
   k >= 2 times ('self' read as the group's id) and no observed rule matches
   it, a reconcileGroupRules pass plans k creations of it and, no call
   failing, issues k CreateSecGroupRule calls for it: there is no
   deduplication; when an observed rule matches it, the pass plans and
   issues none. *)
\* how often the desired list holds rule d
TimesDesired(d) ==
    Len(SelectSeq(desired.Rules,
                  LAMBDA r : Resolved(r, observed.ID) = Resolved(d, observed.ID)))

\* how often the pass plans to create rule d
TimesPlanned(d) ==
    Len(SelectSeq(rulesToCreate,
                  LAMBDA r : Resolved(r, observed.ID) = Resolved(d, observed.ID)))

\* the CreateSecGroupRule calls the pass has issued with the fields of rule d
TimesIssued(d) ==
    Len(SelectSeq(CreateCalls, LAMBDA c : Eight(c.opts) = Resolved(d, observed.ID)))

C27_DuplicateDesired ==
    \A d \in Range(desired.Rules) :
        TimesDesired(d) >= 2 =>
            LET due == IF DesiredIsObserved(d) THEN 0 ELSE TimesDesired(d) IN
            /\ Diffed => TimesPlanned(d) = due
            /\ Diffed => TimesIssued(d) <= due
            /\ PassSucceeded => TimesIssued(d) = due

\* a rule desired twice and not observed: two calls, two equal rules at the provider
C27_Witness ==
    /\ PassSucceeded /\ pass = 1
    /\ Len(desired.Rules) = 2 /\ desired.Rules[1] = desired.Rules[2]
    /\ Len(observed.Rules) = 1
    /\ Len(CreateCalls) = 2
    /\ Eight(CreateCalls[1].opts) = Eight(CreateCalls[2].opts)
    /\ Len(TargetGroup.Rules) = 2
    /\ Eight(TargetGroup.Rules[1]) = Eight(TargetGroup.Rules[2])

(* C28. Concurrent invocations are unprotected: two invocations of
   ReconcileSecurityGroups for the same cluster whose steps interleave can
   both find the name of a managed group absent and both issue
   CreateSecGroup, which leaves the provider with two groups of the name; no
   step of the core prevents it.  As a property of every step of two
   interleaved invocations: an invocation whose lookup found the name absent
   issues CreateSecGroup for it whatever the provider holds by then, and the
   call, when it succeeds, adds a group of the name to the groups of the
   name; the state with two groups of one name, created by one invocation
   each, is reached. *)
\* the step lets the other invocation run
Switches == switches' # switches

\* the invocation that runs has created a group of the name
HasCreated(cs, name) ==
    \E j \in 1..Len(cs) : cs[j].op = "CreateSecGroup" /\ cs[j].ok /\ cs[j].name = name

RaceStep ==
    /\ (pc = "ensureCreate" /\ ~Switches) =>
          LET name == secGroupNamesOf(cfg)[key] IN
          /\ Issues("CreateSecGroup")
          /\ Issued.name = name
          /\ Issued.ok => Len(Listed(name)') = Len(Listed(name)) + 1
    /\ Switches => secGroups' = secGroups /\ nextGroupID' = nextGroupID
    /\ \A k \in EnabledRoles : Len(Listed(secGroupNamesOf(cfg)[k])') <= 2

C28_UnprotectedRace == [][RaceStep]_vars

\* both invocations have created a group under the worker's name
C28_Witness ==
    LET name == getSecWorkerGroupName(ClusterName) IN
    /\ switches > 0
    /\ Len(Listed(name)) = 2
    /\ Listed(name)[1].ID # Listed(name)[2].ID
    /\ HasCreated(calls, name)
    /\ HasCreated(peer.calls, name)

(* C29. Status is written only on success: whenever ReconcileSecurityGroups
   returns an error, the three security group fields of the cluster status
   have the values they had before the invocation, even when groups were
   reconciled in the invocation.  As a property of every step: the status
   changes only in the step with which an invocation returns success, after
   every desired group is reconciled, and the step with which an invocation
   returns an error leaves it as it is. *)
\* the step is the return of the invocation
ReturnsNow == pc # "returned" /\ pc' = "returned"

StatusStep ==
    /\ clusterStatus' # clusterStatus =>
          /\ pc = "reconcile" /\ todo = {}
          /\ ReturnsNow /\ retErr' = NoErr
          /\ DOMAIN observedSecGroups = DOMAIN desiredSecGroups
    /\ (ReturnsNow /\ retErr' # NoErr) => clusterStatus' = clusterStatus

C29_StatusOnSuccess == [][StatusStep]_vars

\* a first invocation has reconciled one group, with rule calls, and failed on
\* the next: the status is as it was, nil
C29_Witness ==
    /\ Returned /\ retErr # NoErr
    /\ DOMAIN observedSecGroups # {}
    /\ \E k \in DOMAIN observedSecGroups : Deref(observedSecGroups[k]).ID # ""
    /\ RuleCalls # <<>>
    /\ clusterStatus = NilStatus

(* C30. Status mirrors the provider: after a reconcileGroupRules pass in which
   no call failed and whose result is not empty, the rule ids of the returned
   status are pairwise distinct and are exactly the ids of the rules the
   provider holds for the group, for every observed list, also one that
   holds several structurally equal rules. *)
\* the ids of the rules of sequence rules
RuleIDsOf(rules) == {rules[k].ID : k \in 1..Len(rules)}

C30_StatusMirrorsProvider ==
    (PassSucceeded /\ result.status.Rules # <<>>) =>
        /\ Cardinality(RuleIDsOf(result.status.Rules)) = Len(result.status.Rules)
        /\ RuleIDsOf(result.status.Rules) = RuleIDsOf(TargetGroup.Rules)

(* C31. The bastion group is handled only while the bastion is enabled: with
   the bastion disabled in the configuration passed in,
   ReconcileSecurityGroups sets the bastion status to nil and issues no call
   on the bastion group, and DeleteSecurityGroups issues no DeleteSecGroup
   for it; so a bastion group that an earlier invocation created with the
   bastion enabled remains at the provider after a successful
   DeleteSecurityGroups.  As a property of every step taken with the bastion
   disabled: no lookup is for the bastion's name, no call is for a group of
   that name or for one of its rules, these groups stay as they are, and a
   ReconcileSecurityGroups that returns success leaves the bastion status
   nil. *)
\* the provider's groups that bear the bastion's name
BastionGroups == Listed(getSecBastionGroupName(ClusterName))

\* the step is a lookup by name that succeeds or fails
LooksUp == lists' = lists + 1

\* the provider call the step issues is none on the groups gs
SparesGroups(gs) ==
    LET ids == {gs[k].ID : k \in 1..Len(gs)}
        ruleIDs == UNION {{gs[k].Rules[j].ID : j \in 1..Len(gs[k].Rules)} : k \in 1..Len(gs)}
    IN  /\ Issues("CreateSecGroup") => \A k \in 1..Len(gs) : Issued.name # gs[k].Name
        /\ Issues("ReplaceAllAttributesTags") => Issued.id \notin ids
        /\ Issues("DeleteSecGroup") => Issued.id \notin ids
        /\ Issues("CreateSecGroupRule") => Issued.opts.SecGroupID \notin ids
        /\ Issues("DeleteSecGroupRule") => Issued.id \notin ruleIDs

BastionStep ==
    ~cfg.BastionEnabled =>
        /\ (LooksUp /\ pc \in {"ensure", "generate", "reconcile"}) => key' # bastionSuffix
        /\ (LooksUp /\ pc = "deleteLookup") => i \in 1..2
        /\ Issues("CreateSecGroup") => Issued.name # getSecBastionGroupName(ClusterName)
        /\ SparesGroups(BastionGroups)
        /\ BastionGroups' = BastionGroups
        /\ (pc = "reconcile" /\ pc' = "returned" /\ retErr' = NoErr) =>
              clusterStatus'.BastionSecurityGroup = <<>>
        /\ (pc = "deleteLookup" /\ pc' = "returned" /\ retErr' = NoErr) =>
              /\ Listed(getSecControlPlaneGroupName(ClusterName))' = <<>>
              /\ Listed(getSecWorkerGroupName(ClusterName))' = <<>>

C31_BastionOnlyWhileEnabled == [][BastionStep]_vars

\* the bastion group, created with its rules while the bastion was enabled,
\* is all that is left after a ReconcileSecurityGroups with the bastion
\* disabled, which set its status to nil, and a successful
\* DeleteSecurityGroups, which deleted the two other groups
C31_Witness ==
    /\ Returned /\ retErr = NoErr
    /\ ~cfg.BastionEnabled
    /\ Len(calls) = 2
    /\ \A j \in 1..2 : calls[j].op = "DeleteSecGroup" /\ calls[j].ok
    /\ Len(secGroups) = 1
    /\ secGroups[1].Name = getSecBastionGroupName(ClusterName)
    /\ secGroups[1].ID = GroupIDs[3]
    /\ secGroups[1].Rules # <<>>
    /\ clusterStatus.BastionSecurityGroup = <<>>
    /\ clusterStatus.ControlPlaneSecurityGroup # <<>>

(* C32. Tagging is not retried: if in createSecurityGroupIfNotExists the
   CreateSecGroup call succeeds and the ReplaceAllAttributesTags call that
   follows fails, the error is returned and the group stays at the provider
   without tags; every later invocation finds the group existing and issues
   no tag call, so the group never receives the tags of the cluster.  As a
   property of every step: a failed tag call returns its error and leaves
   the new group at the provider, untagged; and a group that is at the
   provider without tags, the tag call that follows its creation not
   pending, is without tags after the step, which issues no tag call for
   it. *)
\* the tag call for the group of id is the next call of the invocation
TagPending(id) == pc = "ensureTag" /\ id = GroupIDs[nextGroupID - 1]

\* the provider's group of id has no tag
Untagged(id) == \A k \in 1..Len(secGroups) : secGroups[k].ID = id => secGroups[k].Tags = <<>>

TagStep ==
    /\ (Issues("ReplaceAllAttributesTags") /\ ~Issued.ok) =>
          /\ pc' = "returned" /\ retErr' = ErrTags
          /\ secGroups' = secGroups
          /\ \E k \in 1..Len(secGroups) : secGroups[k].ID = Issued.id
          /\ Untagged(Issued.id)
          /\ calls[Len(calls)].op = "CreateSecGroup" /\ calls[Len(calls)].ok
          /\ calls[Len(calls)].id = Issued.id
    /\ \A k \in 1..Len(secGroups) :
          (secGroups[k].Tags = <<>> /\ ~TagPending(secGroups[k].ID)) =>
              /\ Untagged(secGroups[k].ID)'
              /\ \E j \in 1..Len(secGroups') : secGroups'[j].ID = secGroups[k].ID
              /\ Issues("ReplaceAllAttributesTags") => Issued.id # secGroups[k].ID

C32_TaggingNotRetried == [][TagStep]_vars

\* the worker group was created and its tag call failed; a later invocation
\* has reconciled the cluster without a tag call and returned success, the
\* group still without the tags of the cluster
C32_Witness ==
    /\ Returned /\ retErr = NoErr
    /\ cfg.LBEnabled /\ cfg.Tags # <<>>
    /\ failBudget = 0
    /\ Len(secGroups) = 2
    /\ secGroups[2].ID = GroupIDs[2] /\ secGroups[2].Name = getSecWorkerGroupName(ClusterName)
    /\ secGroups[2].Tags = <<>>
    /\ secGroups[2].Rules # <<>>
    /\ \A j \in 1..Len(calls) : calls[j].op # "ReplaceAllAttributesTags"

(* C33. Ambiguity is absorbing: once the provider holds two groups with the
   same managed name, every later ReconcileSecurityGroups and
   DeleteSecurityGroups invocation that reaches that name returns the 'more
   than one security group found' error and issues no create-group,
   delete-group, create-rule or delete-rule call for a group of that name, so
   no sequence of invocations removes the ambiguity.  As a property of every
   step of invocations that run one after the other: while a managed name
   has two groups or more, a lookup of the name that the provider answers
   returns that error without a call, no call is for a group of the name or
   for one of its rules, and the groups of the name stay as they are. *)
\* the names of the groups a cluster may manage
ManagedNames ==
    {getSecControlPlaneGroupName(ClusterName), getSecWorkerGroupName(ClusterName),
     getSecBastionGroupName(ClusterName)}

\* the step is a lookup of name that the provider answers
LooksUpName(name) ==
    /\ LooksUp /\ failBudget' = failBudget
    /\ \/ pc \in {"ensure", "generate", "reconcile"} /\ secGroupNamesOf(cfg)[key'] = name
       \/ pc = "deleteLookup" /\ i <= 3
             /\ <<getSecControlPlaneGroupName(ClusterName),
                  getSecWorkerGroupName(ClusterName),
                  getSecBastionGroupName(ClusterName)>>[i] = name

AmbiguityStep ==
    \A name \in ManagedNames :
        Len(Listed(name)) >= 2 =>
            /\ LooksUpName(name) =>
                  pc' = "returned" /\ retErr' = ErrAmbiguous /\ calls' = calls
            /\ SparesGroups(Listed(name))
            /\ Listed(name)' = Listed(name)

C33_AmbiguityAbsorbing == [][AmbiguityStep]_vars

\* a DeleteSecurityGroups deleted the control plane group and stopped at the
\* worker's name; a ReconcileSecurityGroups created the control plane group
\* anew and stopped there too: the two groups of the name are still there
C33_Witness ==
    /\ Returned /\ retErr = ErrAmbiguous
    /\ Len(Listed(getSecWorkerGroupName(ClusterName))) = 2
    /\ Len(Listed(getSecControlPlaneGroupName(ClusterName))) = 1
    /\ Listed(getSecControlPlaneGroupName(ClusterName))[1].ID = GroupIDs[4]
    /\ Len(calls) = 1 /\ calls[1].op = "CreateSecGroup" /\ calls[1].ok

(* C34. Managed groups disabled: when the cluster specification has no
   managed-security-groups section, ReconcileSecurityGroups returns success,
   issues no provider call, and leaves the three security-group status
   fields unchanged.  As a property of every step: the first step of such an
   invocation returns success, with no lookup and no call issued, the
   provider and the three status fields as they were. *)
ManagedOffStep ==
    (pc = "entry" /\ ~cfg.ManagedSecurityGroups) =>
        /\ pc' = "returned" /\ retErr' = NoErr
        /\ NoProviderCall /\ NoProviderCall'
        /\ secGroups' = secGroups
        /\ clusterStatus' = clusterStatus

C34_ManagedGroupsDisabled == [][ManagedOffStep]_vars

\* an invocation without managed groups has returned success without a call,
\* the groups at the provider and the status of an earlier invocation intact
C34_Witness ==
    /\ Returned /\ retErr = NoErr
    /\ ~cfg.ManagedSecurityGroups
    /\ NoProviderCall
    /\ Len(secGroups) = 3
    /\ clusterStatus.ControlPlaneSecurityGroup # <<>>
    /\ clusterStatus.WorkerSecurityGroup # <<>>
    /\ clusterStatus.BastionSecurityGroup # <<>>
    /\ Deref(clusterStatus.BastionSecurityGroup).Rules # <<>>

(* C35. No absent field is read: every rule status that reconcileGroupRules
   passes to Matches during ReconcileSecurityGroups was produced by the
   conversion from the provider's rule and has all seven optional fields
   (description, etherType, portRangeMin, portRangeMax, protocol,
   remoteGroupID, remoteIPPrefix) present, so Matches never dereferences a
   nil field: where the diff is about to compare them, every observed rule
   has each of the seven fields pointing to the value of the provider's
   rule of the same id, a zero value included. *)
OptionalFields ==
    {"Description", "EtherType", "PortRangeMin", "PortRangeMax", "Protocol",
     "RemoteGroupID", "RemoteIPPrefix"}

\* the provider's rules of the group of id
WireRulesOf(id) ==
    UNION {Range(secGroups[k].Rules) : k \in {h \in 1..Len(secGroups) : secGroups[h].ID = id}}

C35_NoAbsentField ==
    pc = "diff" =>
        \A k \in 1..Len(observed.Rules) :
            /\ \A f \in OptionalFields : Len(observed.Rules[k][f]) = 1
            /\ \E w \in WireRulesOf(observed.ID) :
                  /\ w.ID = observed.Rules[k].ID
                  /\ w.Direction = observed.Rules[k].Direction
                  /\ \A f \in OptionalFields : observed.Rules[k][f] = <<w[f]>>

\* the diff is about to compare a rule that has nothing but zero values in
\* five of its optional fields at the provider
C35_Witness ==
    /\ pc = "diff"
    /\ \E k \in 1..Len(observed.Rules) :
          /\ observed.Rules[k].Protocol = <<"">>
          /\ observed.Rules[k].PortRangeMin = <<0>>
          /\ observed.Rules[k].PortRangeMax = <<0>>
          /\ observed.Rules[k].RemoteGroupID = <<"">>
          /\ observed.Rules[k].RemoteIPPrefix = <<"">>

(* C36. GetSecurityGroups returns no duplicates: for every list of filters, a
   successful GetSecurityGroups returns ids that are pairwise distinct,
   ordered by first appearance across the filters, and that are exactly the
   explicit ids given plus the ids of every group listed for each filter
   without an explicit id. *)
\* the ids filter sg selects, in the provider's order: its id when it has
\* one, else the ids of the groups of its name in its project, the cluster's
\* project when it names none
SelectedBy(sg) ==
    IF sg.ID # ""
    THEN <<sg.ID>>
    ELSE LET project == IF sg.ProjectID = "" THEN ProjectID ELSE sg.ProjectID
             groups == SelectSeq(secGroups,
                                 LAMBDA g : /\ (sg.Name = <<>> \/ g.Name = sg.Name)
                                            /\ g.ProjectID = project)
         IN  [k \in 1..Len(groups) |-> groups[k].ID]

\* the ids the first n filters select, in order, repeated as often as selected
RECURSIVE SelectedUpTo(_)
SelectedUpTo(n) ==
    IF n = 0 THEN <<>> ELSE SelectedUpTo(n - 1) \o SelectedBy(securityGroupParams[n])

\* the place where id appears first in the sequence ids
FirstAt(ids, id) == CHOOSE k \in 1..Len(ids) : ids[k] = id /\ \A j \in 1..(k - 1) : ids[j] # id

\* GetSecurityGroups has returned success
GotIDs == pc = "returned" /\ retErr = NoErr /\ i > Len(securityGroupParams)

C36_NoDuplicates ==
    GotIDs =>
        LET all == SelectedUpTo(Len(securityGroupParams)) IN
        /\ \A a, b \in 1..Len(sgIDs) : a # b => sgIDs[a] # sgIDs[b]
        /\ Range(sgIDs) = Range(all)
        /\ \A a, b \in 1..Len(sgIDs) : a < b => FirstAt(all, sgIDs[a]) < FirstAt(all, sgIDs[b])

\* three filters select six ids, an explicit one and five listed ones, of
\* which three are returned
C36_Witness ==
    /\ GotIDs
    /\ Len(securityGroupParams) = 3
    /\ securityGroupParams[2].ID # ""
    /\ Len(SelectedUpTo(3)) = 6
    /\ Len(sgIDs) = 3

(* C37. GetSecurityGroups lookup failures: a filter carrying an explicit id
   causes no provider call and is accepted unvalidated; a filter without id
   whose listing is empty or fails makes the whole call return an error and
   no ids, discarding the ids resolved from earlier filters; the list query
   uses the scope's project when the filter names none.  As a property of
   the step taken for each filter. *)
GetFilterStep ==
    (pc = "getFilter" /\ i <= Len(securityGroupParams)) =>
        LET sg == securityGroupParams[i]
            project == IF sg.ProjectID = "" THEN ProjectID ELSE sg.ProjectID
        IN  IF sg.ID # ""
            THEN /\ calls' = calls /\ lists' = lists /\ failBudget' = failBudget
                 /\ pc' = "getFilter" /\ retErr' = retErr /\ i' = i + 1
                 /\ Range(sgIDs') = Range(sgIDs) \cup {sg.ID}
            ELSE /\ Issues("ListSecGroup")
                 /\ lists' = lists + 1
                 /\ Issued.opts.Name = sg.Name
                 /\ Issued.opts.ProjectID = project
                 /\ ~Issued.ok => pc' = "returned" /\ retErr' = ErrList /\ sgIDs' = <<>>
                 /\ (Issued.ok /\ SelectedBy(sg) = <<>>) =>
                       pc' = "returned" /\ retErr' = ErrNotFound /\ sgIDs' = <<>>
                 /\ (Issued.ok /\ SelectedBy(sg) # <<>>) =>
                       pc' = "getFilter" /\ retErr' = retErr /\ i' = i + 1

C37_LookupFailures == [][GetFilterStep]_vars

\* the first filter has an id that no group at the provider has, the second
\* the control plane's name and no project, the third a name without group:
\* two list calls, the first for the cluster's project, and an error without
\* ids
C37_Witness ==
    /\ pc = "returned" /\ retErr = ErrNotFound
    /\ sgIDs = <<>>
    /\ i = 3 /\ Len(securityGroupParams) = 3
    /\ securityGroupParams[1].ID = OtherGroupID
    /\ securityGroupParams[2] = Filter("", getSecControlPlaneGroupName(ClusterName), "")
    /\ lists = 2 /\ Len(calls) = 2
    /\ calls[1].opts.ProjectID = ProjectID
    /\ \A k \in 1..Len(secGroups) : secGroups[k].ID # OtherGroupID

=============================================================================
